---- MODULE Spec2Model ----
(***************************************************************************)
(* Model of the query-time RAG pipeline of the NCERT doubt-solver backend: *)
(* the response cache (app/db/mongodb.py), the query pipeline              *)
(* (app/services/rag_service.py), the vector query (app/db/pinecone.py)    *)
(* and the chat endpoint that drives them (app/api/chat.py).               *)
(*                                                                         *)
(* Encodings.  A Python str that is a question is a sequence of            *)
(* characters; an Optional value is a sequence of length 0 or 1; an        *)
(* Optional[int] grade is 0 when absent (the code tests grades by          *)
(* truthiness only).  A similarity score s in [0,1] is the integer 10*s.   *)
(* A SHA-256 digest is the tuple of the fields of the string it digests.   *)
(* Time is counted in ticks of the TTL period.                             *)
(***************************************************************************)
EXTENDS Integers, Sequences, FiniteSets, TLC

\* ------------------------------------------------------------------ bounds
MaxTime == 2          \* the clock runs over 0..MaxTime
TtlTicks == 1         \* settings.CACHE_TTL_SECONDS, in clock ticks
MaxDocs == 6          \* vectors in the namespace, specification SpecQuery
MaxTurns == 2         \* messages received on one WebSocket connection
MaxFragments == 2     \* pieces of one streamed answer
MaxChunks == 2        \* chunks chunk_text makes of one uploaded document
MaxParagraphs == 3    \* paragraphs of a text given to chunk_text
MaxChunkSize == 4     \* chunk_size runs over 1..MaxChunkSize
MaxRuns == 2          \* calls of add_documents with the same arguments
MaxHistory == 4       \* turns saved in the conversation, specification SpecHistory
MaxClients == 2       \* database clients created, specification SpecHandles
MaxNamespaceDocs == 4 \* matching vectors of one namespace, specification SpecFanOut

\* ------------------------------------------------------ program constants
RAG_TOP_K == 5
RAG_RERANK_TOP_K == 3
RAG_MIN_RELEVANCE_SCORE == 7
HistoryLimit == 3      \* process_query: get_conversation_context(limit=3)
HistoryLineCap == 500  \* _format_conversation_history: content[:500]
PingAttempts == 3      \* init_mongodb: for attempt in range(3)
PerNamespaceTopK == 3  \* query_vectors: top_k of each namespace query
max_retries == 3      \* GeminiService.generate
retry_delay == 2      \* seconds, GeminiService.generate
MinNativeChars == 500 \* process_document: less native text means full OCR
MinTextChars == 100   \* process_document: less cleaned text is an error

\* ------------------------------------------------------------ input sets
Requests == {1, 2}                      \* request tasks that can be in flight
NoGrade == 0
Grades == {NoGrade, 11}
Scores == {6, 7, 8}
\* the text the completion provider returns to each request task
AnswerOf(r) == IF r = 1 THEN "a1" ELSE "a2"
Languages == {"en", "hi", "ur"}
PlainQuestion == <<"Q", "a">>
Questions ==
  { PlainQuestion,
    <<"q", "a", " ">>,                  \* same question after lower().strip()
    <<"dev", "a", "a">>,                \* 1/3 Devanagari
    <<"dev", "a", "a", "a">>,           \* 1/4 Devanagari
    <<"arab", "a">>,                    \* 1/2 Arabic
    <<"dev", "arab", "a">> }            \* 1/3 of each

VARIABLES
  now,            \* datetime.utcnow()
  chat_cache,     \* the documents of the collection db.chat_cache
  index,          \* the namespace's vectors ranked by similarity to the question
  req,            \* per request task: position in chat() and its local variables
  llm,            \* the call of GeminiService.generate in flight
  ws,             \* the WebSocket connection served by chat_stream()
  uploaded_books, \* per upload id: the document of db.uploaded_books, if any
  job,            \* per upload id: position of process_document() and its locals
  vectors,        \* the records upserted into the vector index
  book_chapters,  \* the documents of the collection db.book_chapters
  ck,             \* one application of chunk_text: its arguments and result
  hq,             \* two applications of _hash_question: arguments and results
  fan,            \* one subject-less query_vectors: namespaces, failures, result
  pine,           \* the calls of add_documents and delete_by_source, per file
  chat_history,   \* the documents of db.chat_history of one conversation, oldest first
  svc,            \* the module globals of mongodb.py and the tasks that use them
  deletion        \* per upload id: position of delete_book() and the book it found

chatVars == <<now, chat_cache, index, req>>
ingestVars == <<uploaded_books, job, vectors, book_chapters>>
otherVars == <<ck, hq, fan, pine, chat_history, svc, deletion>>
vars == <<chatVars, llm, ws, ingestVars, otherVars>>

\* what the chat endpoint and the cache leave alone
exceptChat == <<llm, ws, ingestVars, otherVars>>

\* ----------------------------------------------------------- pure helpers
Min(a, b) == IF a <= b THEN a ELSE b

Take(s, n) == SubSeq(s, 1, Min(n, Len(s)))

RECURSIVE Count(_, _)
Count(s, class) ==
  IF s = <<>> THEN 0
  ELSE (IF Head(s) = class THEN 1 ELSE 0) + Count(Tail(s), class)

\* str.lower() on one character
Lower(c) ==
  CASE c = "Q" -> "q"
    [] c = "P" -> "p"
    [] c = "S" -> "s"
    [] OTHER -> c

RECURSIVE LStrip(_)
LStrip(s) == IF s # <<>> /\ Head(s) = " " THEN LStrip(Tail(s)) ELSE s

RECURSIVE RStrip(_)
RStrip(s) ==
  IF s # <<>> /\ s[Len(s)] = " " THEN RStrip(SubSeq(s, 1, Len(s) - 1)) ELSE s

\* query.lower().strip()
NormalizeQuestion(q) == RStrip(LStrip([i \in 1..Len(q) |-> Lower(q[i])]))

\* A text is a sequence of characters; "\n" is the newline.
Whitespace == {" ", "\n"}
ParagraphBreak == <<"\n", "\n">>

\* str.strip()
RECURSIVE strip(_)
strip(s) ==
  IF s = <<>> THEN s
  ELSE IF Head(s) \in Whitespace THEN strip(Tail(s))
  ELSE IF s[Len(s)] \in Whitespace THEN strip(SubSeq(s, 1, Len(s) - 1))
  ELSE s

\* the positions at which sep occurs in s
Occurrences(s, sep) ==
  {i \in 1..(Len(s) - Len(sep) + 1) : SubSeq(s, i, i + Len(sep) - 1) = sep}

First(positions) == CHOOSE i \in positions : \A j \in positions : i <= j

\* str.split(sep)
RECURSIVE split(_, _)
split(s, sep) ==
  IF Occurrences(s, sep) = {} THEN <<s>>
  ELSE LET i == First(Occurrences(s, sep))
       IN  <<SubSeq(s, 1, i - 1)>> \o split(SubSeq(s, i + Len(sep), Len(s)), sep)

\* str.replace(old, new)
RECURSIVE replace(_, _, _)
replace(s, old, new) ==
  IF Occurrences(s, old) = {} THEN s
  ELSE LET i == First(Occurrences(s, old))
       IN  SubSeq(s, 1, i - 1) \o new \o
           replace(SubSeq(s, i + Len(old), Len(s)), old, new)

\* f"{grade}" for the grades of the model
GradeStr(g) == IF g = 11 THEN "11" ELSE "12"

\* RAGService._hash_question:
\* key = f"{query.lower().strip()}|{grade or 'any'}|{subject or 'any'}"; the
\* digest of the key stands for the key itself
_hash_question(query, grade, subject) ==
  NormalizeQuestion(query)
    \o <<"|", IF grade # NoGrade THEN GradeStr(grade) ELSE "any">>
    \o <<"|", IF subject # <<>> /\ subject[1] # "" THEN subject[1] ELSE "any">>

\* RAGService._detect_language
_detect_language(text) ==
  LET hindi_chars == Count(text, "dev")
      urdu_chars == Count(text, "arab")
      total == Len(text)
  IN  IF total = 0 THEN "en"
      ELSE IF 10 * hindi_chars > 3 * total THEN "hi"
      ELSE IF 10 * urdu_chars > 3 * total THEN "ur"
      ELSE "en"

detected_language_param(query, language) == language

\* process_query step 2: detected_language = self._detect_language(query)
detected_language(query, language) == _detect_language(query)

\* RAGService._get_out_of_scope_response
_get_out_of_scope_response(language) ==
  CASE language = "hi" -> "refusal_hi"
    [] language = "ur" -> "refusal_ur"
    [] OTHER -> "refusal_en"

\* A Python str used as context: free text, or the joined source blocks
TextContext(t) == [text |-> t, parts |-> <<>>]

\* ------------------------------------------------------------ vector index
\* metadata class_num of the vector ranked i: the stored formats are heterogeneous
DocClass(i) == CASE i % 3 = 1 -> "11" [] i % 3 = 2 -> "Class 11" [] OTHER -> "12"

\* the values of filter_dict["class_num"]["$in"] for str(grade)
ClassForms(grade) == {GradeStr(grade), IF grade = 11 THEN "Class 11" ELSE "Class 12"}

\* the namespace's matches, ranked by descending score
Matches ==
  [i \in 1..Len(index) |-> [id |-> i, score |-> index[i], class_num |-> DocClass(i)]]

\* query_vectors with a subject: one namespace, server-side class filter, top_k
query_vectors(grade, top_k) ==
  LET Pass(m) == grade = NoGrade \/ m.class_num \in ClassForms(grade)
  IN  Take(SelectSeq(Matches, Pass), top_k)

\* ------------------------------------------------------- response cache
Hashes == {_hash_question(q, g, <<"Physics">>) : q \in Questions, g \in Grades}

get_cached_response_any(question_hash) ==
  LET found == {d \in chat_cache : d.question_hash = question_hash}
  IN  IF found = {} THEN <<>> ELSE <<CHOOSE d \in found : TRUE>>

\* get_cached_response: find_one({question_hash, is_valid: True})
get_cached_response(question_hash) ==
  LET found == {d \in chat_cache : d.question_hash = question_hash /\ d.is_valid}
  IN  IF found = {} THEN <<>> ELSE <<CHOOSE d \in found : TRUE>>

\* the document set_cached_response builds
cache_doc(question_hash, question, answer, sources) ==
  [question_hash |-> question_hash, question |-> question, answer |-> answer,
   sources |-> sources, is_valid |-> TRUE, created_at |-> now,
   expires_at |-> now + TtlTicks, hit_count |-> 0]

set_cached_response_insert(question_hash, question, answer, sources) ==
  chat_cache \cup {cache_doc(question_hash, question, answer, sources)}

set_cached_response_keep(question_hash, question, answer, sources) ==
  IF \E d \in chat_cache : d.question_hash = question_hash THEN chat_cache
  ELSE chat_cache \cup {cache_doc(question_hash, question, answer, sources)}

\* set_cached_response: replace_one({question_hash}, cache_doc, upsert=True)
set_cached_response(question_hash, question, answer, sources) ==
  LET found == {d \in chat_cache : d.question_hash = question_hash}
      doc == cache_doc(question_hash, question, answer, sources)
  IN  IF found = {} THEN chat_cache \cup {doc}
      ELSE (chat_cache \ {CHOOSE d \in found : TRUE}) \cup {doc}

\* invalidate_cache: update_one({question_hash}, {$set: {is_valid: False}})
invalidate_cache(question_hash) ==
  LET found == {d \in chat_cache : d.question_hash = question_hash}
  IN  IF found = {} THEN chat_cache
      ELSE LET d == CHOOSE x \in found : TRUE
           IN  (chat_cache \ {d}) \cup {[d EXCEPT !.is_valid = FALSE]}

\* ------------------------------------------------------- query pipeline
FilterRelevant_none(results) == results

\* process_query step 4: [r for r in results if r["score"] >= min_relevance_score]
FilterRelevant(results) ==
  SelectSeq(results, LAMBDA r : r.score >= RAG_MIN_RELEVANCE_SCORE)

\* RAGService._format_sources
_format_sources(results) ==
  [i \in 1..Len(results) |->
     [doc |-> results[i].id, class |-> results[i].class_num,
      relevance |-> results[i].score * 10]]

\* RAGService._build_context: results[:rerank_top_k], tagged [Source i: ...]
_build_context(results) ==
  [text |-> "",
   parts |-> [i \in 1..Min(RAG_RERANK_TOP_K, Len(results)) |->
                [n |-> i, doc |-> results[i].id]]]

\* RAGService.build_prompt; chat() never passes conversation_history
build_prompt(query, context) ==
  [kind |-> "rag", query |-> query, context |-> context, history |-> <<>>]

\* the direct prompt of chat()'s except branches
DirectPrompt(query) ==
  [kind |-> "direct", query |-> query, context |-> TextContext(""), history |-> <<>>]

NoPrompt ==
  [kind |-> "none", query |-> <<>>, context |-> TextContext(""), history |-> <<>>]

CacheHit_never(cached) == FALSE

\* process_query: if cached:
CacheHit(cached) == cached # <<>>

ShouldCache_always(is_in_scope, sources) == TRUE

\* chat(): if is_in_scope and len(sources) >= 1
ShouldCache(is_in_scope, sources) == is_in_scope /\ Len(sources) >= 1

\* get_conversation_context(conversation_id, limit): the newest limit
\* documents, oldest first
get_conversation_context(chats, limit) ==
  SubSeq(chats, IF Len(chats) > limit THEN Len(chats) - limit + 1 ELSE 1, Len(chats))

\* _format_conversation_history: one line per document; the documents of
\* chat_history have no "role", and msg.get("question") comes before the answer
_format_conversation_history(history) ==
  [i \in 1..Len(history) |->
     [role |-> IF "role" \in DOMAIN history[i] /\ history[i].role = "user"
               THEN "User" ELSE "Assistant",
      content |-> Take(IF history[i].question # <<>> THEN history[i].question
                       ELSE history[i].answer, HistoryLineCap)]]

\* ------------------------------------------------------------- requests
Subject == <<"Physics">>                \* request.subject

\* current_user.get("grade") of the user behind each request task
UserGrade(r) == IF r = 1 THEN 11 ELSE NoGrade

Idle ==
  [pc |-> "idle", message |-> <<>>, grade |-> NoGrade, language |-> "en",
   cached |-> <<>>, context |-> TextContext(""), sources |-> <<>>,
   is_in_scope |-> TRUE, prompt |-> NoPrompt, response |-> "",
   retrieverCalls |-> 0, historyCalls |-> 0, llmCalls |-> 0, puts |-> 0,
   conversation_id |-> <<>>, history |-> <<>>, conversation_context |-> <<>>]

\* the grade chat() passes to process_query
QueryGrade(r) == IF req[r].grade # NoGrade THEN req[r].grade ELSE UserGrade(r)

\* the key process_query looks up
LookupHash(r) == _hash_question(req[r].message, QueryGrade(r), Subject)

\* the key chat() stores under
StoreHash(r) == _hash_question(req[r].message, req[r].grade, Subject)

\* chat() entry: context = "", sources = [], is_in_scope = True
ChatStart(r, message, grade, language) ==
  /\ req[r].pc = "idle"
  /\ req' = [req EXCEPT ![r] = [Idle EXCEPT !.pc = "cache_get", !.message = message,
                                            !.grade = grade, !.language = language]]
  /\ UNCHANGED <<now, chat_cache, index>>
  /\ UNCHANGED exceptChat

\* process_query step 1: cache lookup, return on a hit
ProcessQueryCache(r) ==
  /\ req[r].pc = "cache_get"
  /\ LET cached == get_cached_response(LookupHash(r))
     IN  IF CacheHit(cached)
         THEN req' = [req EXCEPT ![r].cached = <<[answer |-> cached[1].answer,
                                                          sources |-> cached[1].sources]>>,
                                 ![r].context = TextContext(cached[1].answer),
                                 ![r].sources = cached[1].sources,
                                 ![r].is_in_scope = TRUE,
                                 ![r].prompt = build_prompt(req[r].message,
                                                            TextContext(cached[1].answer)),
                                 ![r].pc = "generate"]
         ELSE req' = [req EXCEPT ![r].cached = <<>>, ![r].pc = "retrieve"]
  /\ UNCHANGED <<now, chat_cache, index>>
  /\ UNCHANGED exceptChat

\* process_query steps 2-7: detect language, query, filter, format, build
ProcessQueryRetrieve(r) ==
  /\ req[r].pc = "retrieve"
  /\ LET language == detected_language(req[r].message, req[r].language)
         results == query_vectors(QueryGrade(r), RAG_TOP_K)
         relevant_results == FilterRelevant(results)
         refusal == TextContext(_get_out_of_scope_response(language))
     IN  IF relevant_results = <<>>
         THEN req' = [req EXCEPT ![r].retrieverCalls = @ + 1,
                                 ![r].context = refusal,
                                 ![r].sources = <<>>,
                                 ![r].is_in_scope = FALSE,
                                 ![r].prompt = build_prompt(req[r].message, refusal),
                                 ![r].pc = "generate"]
         ELSE req' = [req EXCEPT ![r].retrieverCalls = @ + 1,
                                 ![r].context = _build_context(relevant_results),
                                 ![r].sources = _format_sources(relevant_results),
                                 ![r].is_in_scope = TRUE,
                                 ![r].pc = "history"]
  /\ UNCHANGED <<now, chat_cache, index>>
  /\ UNCHANGED exceptChat

\* query_vectors raises (index or embedding model not initialized, transport
\* error): chat() falls back to the direct prompt
ProcessQueryRetrieveFails(r) ==
  /\ req[r].pc = "retrieve"
  /\ req' = [req EXCEPT ![r].retrieverCalls = @ + 1,
                        ![r].prompt = DirectPrompt(req[r].message),
                        ![r].pc = "generate"]
  /\ UNCHANGED <<now, chat_cache, index>>
  /\ UNCHANGED exceptChat

\* process_query step 8 (chat() always supplies a conversation id, a fresh
\* one when the request has none), return, then chat() builds the prompt:
\* build_prompt(query, context, language), conversation_history left at ""
ProcessQueryHistory(r) ==
  /\ req[r].pc = "history"
  /\ LET history == IF req[r].conversation_id # <<>>
                    THEN get_conversation_context(chat_history, HistoryLimit)
                    ELSE <<>>
     IN  req' = [req EXCEPT
           ![r].historyCalls = @ + 1,
           ![r].history = history,
           ![r].conversation_context =
              IF history # <<>> THEN _format_conversation_history(history) ELSE <<>>,
           ![r].prompt = build_prompt(req[r].message, req[r].context),
           ![r].pc = "generate"]
  /\ UNCHANGED <<now, chat_cache, index>>
  /\ UNCHANGED exceptChat

\* response_text = await llm_service.generate(prompt)
ChatGenerate(r, answer) ==
  /\ req[r].pc = "generate"
  /\ req' = [req EXCEPT ![r].llmCalls = @ + 1, ![r].response = answer, ![r].pc = "save"]
  /\ UNCHANGED <<now, chat_cache, index>>
  /\ UNCHANGED exceptChat

\* await save_chat(...), then the caching condition
ChatSave(r) ==
  /\ req[r].pc = "save"
  /\ chat_history' =
       IF req[r].conversation_id # <<>>
       THEN Append(chat_history, [question |-> req[r].message,
                                  answer |-> <<req[r].response>>])
       ELSE chat_history
  /\ req' = [req EXCEPT ![r].pc =
               IF ShouldCache(req[r].is_in_scope, req[r].sources)
               THEN "cache_put" ELSE "respond"]
  /\ UNCHANGED <<now, chat_cache, index>>
  /\ UNCHANGED <<llm, ws, ingestVars, ck, hq, fan, pine, svc, deletion>>

\* await set_cached_response(...)
ChatCachePut(r) ==
  /\ req[r].pc = "cache_put"
  /\ chat_cache' = set_cached_response(StoreHash(r), req[r].message,
                                       req[r].response, req[r].sources)
  /\ req' = [req EXCEPT ![r].puts = @ + 1, ![r].pc = "respond"]
  /\ UNCHANGED <<now, index>>
  /\ UNCHANGED exceptChat

\* return ChatResponse(message=response_text, ...)
ChatRespond(r) ==
  /\ req[r].pc = "respond"
  /\ req' = [req EXCEPT ![r] = Idle]
  /\ UNCHANGED <<now, chat_cache, index>>
  /\ UNCHANGED exceptChat

\* POST /report
report_wrong_answer(question_hash) ==
  /\ chat_cache' = invalidate_cache(question_hash)
  /\ UNCHANGED <<now, index, req>>
  /\ UNCHANGED exceptChat

\* the clock advances
Tick ==
  /\ now < MaxTime
  /\ now' = now + 1
  /\ UNCHANGED <<chat_cache, index, req>>
  /\ UNCHANGED exceptChat

\* the TTL index on expires_at (expireAfterSeconds=0): the background sweep
TtlSweep ==
  /\ \E d \in chat_cache : d.expires_at <= now
  /\ chat_cache' = {d \in chat_cache : d.expires_at > now}
  /\ UNCHANGED <<now, index, req>>
  /\ UNCHANGED exceptChat

\* ------------------------------------------- completion provider (Gemini)
\* the responses one HTTP request to the provider can get
Outcomes == {"ok", "empty", "429", "400", "500", "timeout", "error"}

\* the texts generate returns in place of an answer
NotConfiguredMessage == "the AI service is not configured properly"
HighDemandMessage == "experiencing high demand"
UnableMessage == "Unable to generate response"
RephraseMessage == "Please try rephrasing your question"
TooLongMessage == "taking too long to respond"
FallbackMessages ==
  {NotConfiguredMessage, HighDemandMessage, UnableMessage, RephraseMessage,
   TooLongMessage}

LlmIdle ==
  [pc |-> "idle", api_key |-> TRUE, caller |-> 0, attempt |-> 0,
   retry_delay |-> 0, requests |-> 0, sleeps |-> <<>>, outcomes |-> <<>>,
   result |-> "", provider |-> "gemini"]

\* return <text>
Return(call, text) == [call EXCEPT !.pc = "returned", !.result = text]

\* raise <exception>
Raise(call, exception) == [call EXCEPT !.pc = "raised", !.result = exception]

\* continue: the next iteration of for attempt in range(max_retries)
Continue(call) == [call EXCEPT !.attempt = @ + 1]

\* await asyncio.sleep(retry_delay)
Sleep(call) == [call EXCEPT !.sleeps = Append(@, call.retry_delay)]

OnRateLimit_fixed_delay(call) ==
  IF call.attempt < max_retries - 1
  THEN Continue(Sleep(call))
  ELSE Return(call, HighDemandMessage)

\* if response.status_code == 429
OnRateLimit(call) ==
  IF call.attempt < max_retries - 1
  THEN Continue([Sleep(call) EXCEPT !.retry_delay = @ * 2])
  ELSE Return(call, HighDemandMessage)

OnServerError_returns(call) ==
  IF call.attempt < max_retries - 1
  THEN Continue(Sleep(call))
  ELSE Return(call, UnableMessage)

\* except httpx.HTTPStatusError, other than 400
OnServerError(call) ==
  IF call.attempt < max_retries - 1
  THEN Continue(Sleep(call))
  ELSE Raise(call, "ValueError")

OnClientError_retried(call) == OnServerError(call)

\* except httpx.HTTPStatusError with status 400
OnClientError(call) == Return(call, RephraseMessage)

\* except httpx.TimeoutException
OnTimeout(call) ==
  IF call.attempt < max_retries - 1
  THEN Continue(call)
  ELSE Return(call, TooLongMessage)

\* except Exception
OnError(call) ==
  IF call.attempt < max_retries - 1
  THEN Continue(Sleep(call))
  ELSE Raise(call, "Exception")

\* one iteration of the retry loop: the request is sent and answered
Attempt(call, outcome, answer) ==
  LET sent == [call EXCEPT !.requests = @ + 1, !.outcomes = Append(@, outcome)]
  IN  CASE outcome = "429" -> OnRateLimit(sent)
        [] outcome = "ok" -> Return(sent, answer)
        [] outcome = "empty" -> Return(sent, UnableMessage)
        [] outcome = "400" -> OnClientError(sent)
        [] outcome = "500" -> OnServerError(sent)
        [] outcome = "timeout" -> OnTimeout(sent)
        [] outcome = "error" -> OnError(sent)

\* response_text = await llm_service.generate(prompt): entry
GenerateBegin(r) ==
  /\ req[r].pc = "generate"
  /\ llm.pc = "idle"
  /\ llm' = IF llm.api_key
            THEN [LlmIdle EXCEPT !.pc = "post", !.caller = r,
                                 !.retry_delay = retry_delay]
            ELSE Return([LlmIdle EXCEPT !.api_key = FALSE, !.caller = r],
                        NotConfiguredMessage)
  /\ req' = [req EXCEPT ![r].llmCalls = @ + 1, ![r].pc = "generating"]
  /\ UNCHANGED <<now, chat_cache, index, ws, ingestVars, otherVars>>

\* response = await client.post(...)
GeminiPost(outcome) ==
  /\ llm.pc = "post"
  /\ llm' = Attempt(llm, outcome, AnswerOf(llm.caller))
  /\ UNCHANGED <<chatVars, ws, ingestVars, otherVars>>

\* OpenAIService.generate, request.model = "openai": entry
OpenAIGenerateBegin(r) ==
  /\ req[r].pc = "generate"
  /\ llm.pc = "idle"
  /\ llm' = IF llm.api_key
            THEN [LlmIdle EXCEPT !.pc = "openai_post", !.caller = r,
                                 !.provider = "openai"]
            ELSE Raise([LlmIdle EXCEPT !.api_key = FALSE, !.caller = r,
                                       !.provider = "openai"],
                       "ValueError")
  /\ req' = [req EXCEPT ![r].llmCalls = @ + 1, ![r].pc = "generating"]
  /\ UNCHANGED <<now, chat_cache, index, ws, ingestVars, otherVars>>

\* OpenAIService.generate: one client.post, raise_for_status, no retry; a
\* body without choices raises on data["choices"][0]
OpenAIPost(outcome) ==
  /\ llm.pc = "openai_post"
  /\ LET sent == [llm EXCEPT !.requests = @ + 1, !.outcomes = Append(@, outcome)]
     IN  llm' = CASE outcome = "ok" -> Return(sent, AnswerOf(llm.caller))
                  [] outcome = "empty" -> Raise(sent, "IndexError")
                  [] outcome \in {"429", "400", "500"} -> Raise(sent, "HTTPStatusError")
                  [] outcome = "timeout" -> Raise(sent, "TimeoutException")
                  [] outcome = "error" -> Raise(sent, "Exception")
  /\ UNCHANGED <<chatVars, ws, ingestVars, otherVars>>

\* generate returns its text to chat()
GenerateReturns ==
  /\ llm.pc = "returned"
  /\ req' = [req EXCEPT ![llm.caller].response = llm.result,
                        ![llm.caller].pc = "save"]
  /\ llm' = [llm EXCEPT !.pc = "idle"]
  /\ UNCHANGED <<now, chat_cache, index, ws, ingestVars, otherVars>>

\* generate raises: chat()'s except Exception raises HTTPException(500)
GenerateRaises ==
  /\ llm.pc = "raised"
  /\ req' = [req EXCEPT ![llm.caller].pc = "http_500"]
  /\ llm' = [llm EXCEPT !.pc = "idle"]
  /\ UNCHANGED <<now, chat_cache, index, ws, ingestVars, otherVars>>

\* the 500 response is sent
ChatRespondError(r) ==
  /\ req[r].pc = "http_500"
  /\ req' = [req EXCEPT ![r] = Idle]
  /\ UNCHANGED <<now, chat_cache, index>>
  /\ UNCHANGED exceptChat

\* ------------------------------------------------ WebSocket chat_stream()
\* the pieces generate_stream can yield
Fragments == {"f1", "f2"}

\* a JSON message sent to the client
Message(type, sources, content) ==
  [type |-> type, sources |-> sources, content |-> content]

WsIdle ==
  [pc |-> "none", turns |-> 0, message |-> <<>>, grade |-> NoGrade,
   language |-> "en", context |-> TextContext(""), sources |-> <<>>,
   is_in_scope |-> TRUE, prompt |-> NoPrompt, full_response |-> <<>>,
   sent |-> <<>>, retrieverCalls |-> 0, llmCalls |-> 0, raised |-> "",
   closed |-> FALSE, client |-> TRUE]

\* the key process_query looks up for the stream: grade = data.get("grade")
StreamHash == _hash_question(ws.message, ws.grade, Subject)

\* await websocket.accept()
StreamAccept ==
  /\ ws.pc = "none"
  /\ ws' = [ws EXCEPT !.pc = "receive"]
  /\ UNCHANGED <<chatVars, llm, ingestVars, otherVars>>

\* data = await websocket.receive_json()
StreamReceive(message, grade, language) ==
  /\ ws.pc = "receive"
  /\ ws.client
  /\ ws.turns < MaxTurns
  /\ ws' = [WsIdle EXCEPT !.pc = "cache_get", !.turns = ws.turns + 1,
                          !.message = message, !.grade = grade,
                          !.language = language]
  /\ UNCHANGED <<chatVars, llm, ingestVars, otherVars>>

\* process_query step 1, then build_prompt on a hit
StreamQueryCache ==
  /\ ws.pc = "cache_get"
  /\ LET cached == get_cached_response(StreamHash)
     IN  IF CacheHit(cached)
         THEN ws' = [ws EXCEPT !.context = TextContext(cached[1].answer),
                               !.sources = cached[1].sources,
                               !.is_in_scope = TRUE,
                               !.prompt = build_prompt(ws.message,
                                                       TextContext(cached[1].answer)),
                               !.pc = "send_sources"]
         ELSE ws' = [ws EXCEPT !.pc = "retrieve"]
  /\ UNCHANGED <<chatVars, llm, ingestVars, otherVars>>

\* process_query steps 2-7 (no conversation id: step 8 is skipped), then
\* build_prompt
StreamQueryRetrieve ==
  /\ ws.pc = "retrieve"
  /\ LET language == detected_language(ws.message, ws.language)
         results == query_vectors(ws.grade, RAG_TOP_K)
         relevant_results == FilterRelevant(results)
         refusal == TextContext(_get_out_of_scope_response(language))
     IN  IF relevant_results = <<>>
         THEN ws' = [ws EXCEPT !.retrieverCalls = @ + 1,
                               !.context = refusal,
                               !.sources = <<>>,
                               !.is_in_scope = FALSE,
                               !.prompt = build_prompt(ws.message, refusal),
                               !.pc = "send_sources"]
         ELSE ws' = [ws EXCEPT !.retrieverCalls = @ + 1,
                               !.context = _build_context(relevant_results),
                               !.sources = _format_sources(relevant_results),
                               !.is_in_scope = TRUE,
                               !.prompt = build_prompt(ws.message,
                                                       _build_context(relevant_results)),
                               !.pc = "send_sources"]
  /\ UNCHANGED <<chatVars, llm, ingestVars, otherVars>>

\* except Exception: logger.error(...); await websocket.close(code=1000)
StreamError(exception) ==
  [ws EXCEPT !.pc = "closed", !.raised = exception, !.closed = TRUE]

\* query_vectors raises RuntimeError (index or embedding model not
\* initialized): nothing inside the loop catches it
StreamQueryRetrieveFails ==
  /\ ws.pc = "retrieve"
  /\ ws' = [StreamError("RuntimeError") EXCEPT !.retrieverCalls = @ + 1]
  /\ UNCHANGED <<chatVars, llm, ingestVars, otherVars>>

\* await websocket.send_json({"type": "sources", ...})
StreamSendSources ==
  /\ ws.pc = "send_sources"
  /\ ws.client
  /\ ws' = [ws EXCEPT !.sent = Append(@, Message("sources", ws.sources, <<>>)),
                      !.pc = "send_start"]
  /\ UNCHANGED <<chatVars, llm, ingestVars, otherVars>>

\* await websocket.send_json({"type": "start"}); full_response = ""
StreamSendStart ==
  /\ ws.pc = "send_start"
  /\ ws.client
  /\ ws' = [ws EXCEPT !.sent = Append(@, Message("start", <<>>, <<>>)),
                      !.full_response = <<>>, !.llmCalls = @ + 1,
                      !.pc = "streaming"]
  /\ UNCHANGED <<chatVars, llm, ingestVars, otherVars>>

Accumulate_replace(full_response, chunk) == <<chunk>>

\* full_response += chunk
Accumulate(full_response, chunk) == Append(full_response, chunk)

\* async for chunk in generate_stream(prompt): one iteration
StreamChunk(chunk) ==
  /\ ws.pc = "streaming"
  /\ ws.client
  /\ Len(ws.full_response) < MaxFragments
  /\ ws' = [ws EXCEPT !.full_response = Accumulate(@, chunk),
                      !.sent = Append(@, Message("chunk", <<>>, <<chunk>>))]
  /\ UNCHANGED <<chatVars, llm, ingestVars, otherVars>>

\* the generator is exhausted: send {"type": "end", "full_response": ...}
StreamSendEnd ==
  /\ ws.pc = "streaming"
  /\ ws.client
  /\ ws' = [ws EXCEPT !.sent = Append(@, Message("end", <<>>, ws.full_response)),
                      !.pc = "receive"]
  /\ UNCHANGED <<chatVars, llm, ingestVars, otherVars>>

\* generate_stream raises (no API key, HTTP error, transport error)
StreamProviderFails ==
  /\ ws.pc = "streaming"
  /\ ws' = StreamError("ProviderError")
  /\ UNCHANGED <<chatVars, llm, ingestVars, otherVars>>

\* the client goes away while the connection is served
ClientLeaves ==
  /\ ws.pc \notin {"none", "closed"}
  /\ ws.client
  /\ ws' = [ws EXCEPT !.client = FALSE]
  /\ UNCHANGED <<chatVars, llm, ingestVars, otherVars>>

\* the client is gone: the pending receive_json or the next send_json raises
\* WebSocketDisconnect, which is only logged
StreamDisconnect ==
  /\ ws.pc \in {"receive", "send_sources", "send_start", "streaming"}
  /\ ~ws.client
  /\ ws' = [ws EXCEPT !.pc = "closed", !.raised = "WebSocketDisconnect"]
  /\ UNCHANGED <<chatVars, llm, ingestVars, otherVars>>

\* ------------------------------- vector index: namespaces, upsert, delete
\* A subject is absent (<<>>) or a string (<<characters>>).
SubjectNames ==
  { <<>>,                                \* ""
    <<"P", "h">>,
    <<"S", "o", " ", "S", "c">>,
    <<"s", "o", "-", "s", "c">>,
    <<"a", " ", "-", " ", "b">> }
IndexSubjects == {<<>>} \cup {<<name>> : name \in SubjectNames}

General == <<"g", "e", "n", "e", "r", "a", "l">>
DefaultNamespace == <<>>                 \* namespace=None

get_namespace_spaces_only(subject) ==
  IF subject = <<>> \/ subject[1] = <<>> THEN General
  ELSE replace([i \in 1..Len(subject[1]) |-> Lower(subject[1][i])], <<" ">>, <<"_">>)

\* get_namespace: subject.lower().replace(" ", "_").replace("-", "_")
get_namespace(subject) ==
  IF subject = <<>> \/ subject[1] = <<>> THEN General
  ELSE replace(replace([i \in 1..Len(subject[1]) |-> Lower(subject[1][i])],
                       <<" ">>, <<"_">>),
               <<"-">>, <<"_">>)

Standard == "11"                         \* class_num of the uploads
Chapter == "ch"                          \* chapter of the uploads

\* vector_id = f"{source_file}_{standard}_{chapter}_{i}".replace(" ", "_"):
\* the four parts, none of which holds a space in the model
vector_id(source_file, standard, chapter, i) == <<source_file, standard, chapter, i>>

\* the vectors add_documents builds for chunks 0..n-1; run tells the calls
\* apart (it stands for the values the call computed)
NewVectors(n, standard, subject, chapter, source_file, run) ==
  {[namespace |-> get_namespace(subject),
    id |-> vector_id(source_file, standard, chapter, i),
    source_file |-> source_file, chunk_index |-> i, run |-> run] : i \in 0..(n - 1)}

upsert_append(store, batch) == store \cup batch

\* _pinecone_index.upsert(vectors=batch, namespace=namespace): a record with
\* the id of a new one is replaced
upsert(store, batch) ==
  {v \in store : \A b \in batch : ~(b.namespace = v.namespace /\ b.id = v.id)}
    \cup batch

\* add_documents: the index after the call (one batch: the documents of the
\* model have fewer than batch_size chunks)
add_documents(store, n, standard, subject, chapter, source_file, run) ==
  upsert(store, NewVectors(n, standard, subject, chapter, source_file, run))

\* add_documents: return total_added
total_added(n) == n

\* delete_by_source: namespace = get_namespace(subject) if subject else None,
\* then delete(filter={"source_file": {"$eq": source_file}}, namespace)
delete_by_source(store, source_file, subject) ==
  LET namespace == IF subject # <<>> /\ subject[1] # <<>>
                   THEN get_namespace(subject) ELSE DefaultNamespace
  IN  {v \in store : ~(v.namespace = namespace /\ v.source_file = source_file)}

Files == {"f1", "f2"}

PineIdle ==
  [f \in Files |-> [subject |-> <<>>, chunks |-> 1, runs |-> 0,
                    returned |-> <<>>, last |-> "none"]]

\* vectors_added = await add_documents(chunks, class_num, subject, chapter,
\* source_file), called once more with the same arguments
AddDocuments(f) ==
  /\ pine[f].runs < MaxRuns
  /\ vectors' = add_documents(vectors, pine[f].chunks, Standard, pine[f].subject,
                              Chapter, f, pine[f].runs + 1)
  /\ pine' = [pine EXCEPT ![f].runs = @ + 1,
                          ![f].returned = <<total_added(pine[f].chunks)>>,
                          ![f].last = "added"]
  /\ UNCHANGED <<chatVars, llm, ws, uploaded_books, job, book_chapters, ck, hq, fan, chat_history, svc, deletion>>

\* await delete_by_source(source_file, subject) with the subject of the upload
DeleteBySource(f) ==
  /\ pine[f].last = "added"
  /\ vectors' = delete_by_source(vectors, f, pine[f].subject)
  /\ pine' = [pine EXCEPT ![f].returned = <<>>, ![f].last = "deleted"]
  /\ UNCHANGED <<chatVars, llm, ws, uploaded_books, job, book_chapters, ck, hq, fan, chat_history, svc, deletion>>

\* ------------------------------------------- ingestion: process_document()
UploadIds == {"u1"}

\* A text is known by where it came from, its length, the length of its
\* strip() and the length of what clean_text makes of it.
Text(source, raw, clean) ==
  [source |-> source, length |-> raw, raw |-> raw, clean |-> clean]
\* the text with n more characters of whitespace at its end
Padded(text, n) == [text EXCEPT !.length = @ + n]
NoText == Text("", 0, 0)
NativeTexts ==
  {Text("native", 50, 50), Text("native", 499, 499), Text("native", 500, 99),
   Text("native", 500, 500), Padded(Text("native", 499, 499), 1)}
OcrTexts == {Text("ocr", 0, 0), Text("ocr", 99, 99), Text("ocr", 100, 100)}

\* an uploaded PDF: what extract_native_text and full_page_ocr get out of it
\* and the number of chunks chunk_text makes of its cleaned text
Documents == [native : NativeTexts, ocr : OcrTexts, chunks : 1..MaxChunks]
NoDocument == [native |-> NoText, ocr |-> NoText, chunks |-> 1]

\* os.path.basename(file_path)
FileName(u) == <<"book", IF u = "u2" THEN "u1" ELSE u>>

\* the class_num form field of each upload
ClassNum(u) == IF u = "u2" THEN "12" ELSE Standard

\* the subject form field of the uploads
JobSubject == <<<<"P", "h">>>>

NoDeletion == [pc |-> "none", book |-> <<>>]

JobIdle ==
  [pc |-> "none", doc |-> NoDocument, text_content |-> NoText,
   total_chunks |-> 0, error |-> "", ocr_calls |-> 0]

IngestAtRest ==
  /\ uploaded_books = [u \in UploadIds |-> <<>>]
  /\ job = [u \in UploadIds |-> JobIdle]
  /\ vectors = {}
  /\ book_chapters = {}
  /\ deletion = [u \in UploadIds |-> NoDeletion]

\* db.uploaded_books.update_one({"_id": upload_id}, {"$set": fields})
update_one(u, fields) ==
  IF uploaded_books[u] = <<>> THEN uploaded_books
  ELSE [uploaded_books EXCEPT ![u] = <<fields @@ uploaded_books[u][1]>>]

\* update_upload_status
update_upload_status(u, status, progress) ==
  update_one(u, [status |-> status, progress_percent |-> progress])

MarkFailed_requeue(u, e) ==
  update_one(u, [status |-> "pending", error_message |-> <<e>>])

MarkFailed_reset_progress(u, e) ==
  update_one(u, [status |-> "failed", error_message |-> <<e>>,
                 progress_percent |-> 0])

\* the except branch: $set status = failed, error_message = str(e)
MarkFailed(u, e) ==
  update_one(u, [status |-> "failed", error_message |-> <<e>>])

\* the statements of process_document that write to the document store
StoreWrites ==
  {"start", "extract_native", "extract_images", "select_text", "chunk",
   "progress_55", "progress_65", "progress_90", "chapter", "complete", "except"}

\* POST /upload/book: insert the record, schedule process_document
upload_book(u, doc) ==
  /\ job[u].pc = "none"
  /\ uploaded_books[u] = <<>>
  /\ uploaded_books' =
       [uploaded_books EXCEPT ![u] =
          <<[filename |-> FileName(u), class_num |-> ClassNum(u),
             subject |-> JobSubject,
             status |-> "pending", progress_percent |-> 0, chunks_processed |-> 0,
             total_chunks |-> <<>>, error_message |-> <<>>]>>]
  /\ job' = [job EXCEPT ![u] = [JobIdle EXCEPT !.pc = "start", !.doc = doc]]
  /\ UNCHANGED <<chatVars, llm, ws, vectors, book_chapters, otherVars>>

\* update_upload_status(PROCESSING, 0)
ProcessStart(u) ==
  /\ job[u].pc = "start"
  /\ uploaded_books' = update_upload_status(u, "processing", 0)
  /\ job' = [job EXCEPT ![u].pc = "extract_native"]
  /\ UNCHANGED <<chatVars, llm, ws, vectors, book_chapters, otherVars>>

\* 1. extract_native_text; progress 15
ProcessExtractNative(u) ==
  /\ job[u].pc = "extract_native"
  /\ uploaded_books' = update_upload_status(u, "processing", 15)
  /\ job' = [job EXCEPT ![u].pc = "extract_images"]
  /\ UNCHANGED <<chatVars, llm, ws, vectors, book_chapters, otherVars>>

\* 2. extract_text_from_images (its text_parts is never appended to, so it
\* returns ""); progress 30
ProcessExtractImages(u) ==
  /\ job[u].pc = "extract_images"
  /\ uploaded_books' = update_upload_status(u, "processing", 30)
  /\ job' = [job EXCEPT ![u].pc = "select_text"]
  /\ UNCHANGED <<chatVars, llm, ws, vectors, book_chapters, otherVars>>

\* 3. full-page OCR replaces a minimal native text, else the native text is
\* kept (image_text is empty); progress 45
ProcessSelectText(u) ==
  /\ job[u].pc = "select_text"
  /\ uploaded_books' = update_upload_status(u, "processing", 45)
  /\ job' = IF job[u].doc.native.raw < MinNativeChars
            THEN [job EXCEPT ![u].ocr_calls = @ + 1,
                             ![u].text_content = job[u].doc.ocr,
                             ![u].pc = "clean"]
            ELSE [job EXCEPT ![u].text_content = job[u].doc.native,
                             ![u].pc = "clean"]
  /\ UNCHANGED <<chatVars, llm, ws, vectors, book_chapters, otherVars>>

\* 4. clean_text; too little text raises ValueError
ProcessClean(u) ==
  /\ job[u].pc = "clean"
  /\ job' = IF job[u].text_content.clean < MinTextChars
            THEN [job EXCEPT ![u].error = "Could not extract sufficient text from document",
                             ![u].pc = "except"]
            ELSE [job EXCEPT ![u].pc = "chunk"]
  /\ UNCHANGED <<chatVars, llm, ws, uploaded_books, vectors, book_chapters, otherVars>>

\* 5. chunk_text; $set total_chunks
ProcessChunk(u) ==
  /\ job[u].pc = "chunk"
  /\ uploaded_books' = update_one(u, [total_chunks |-> <<job[u].doc.chunks>>])
  /\ job' = [job EXCEPT ![u].total_chunks = job[u].doc.chunks,
                        ![u].pc = "progress_55"]
  /\ UNCHANGED <<chatVars, llm, ws, vectors, book_chapters, otherVars>>

\* progress 55
ProcessProgress55(u) ==
  /\ job[u].pc = "progress_55"
  /\ uploaded_books' = update_upload_status(u, "processing", 55)
  /\ job' = [job EXCEPT ![u].pc = "progress_65"]
  /\ UNCHANGED <<chatVars, llm, ws, vectors, book_chapters, otherVars>>

\* 6. format the chunks; progress 65
ProcessProgress65(u) ==
  /\ job[u].pc = "progress_65"
  /\ uploaded_books' = update_upload_status(u, "processing", 65)
  /\ job' = [job EXCEPT ![u].pc = "add_documents"]
  /\ UNCHANGED <<chatVars, llm, ws, vectors, book_chapters, otherVars>>

\* 7. add_documents: embed every chunk, upsert by vector id
ProcessAddDocuments(u) ==
  /\ job[u].pc = "add_documents"
  /\ vectors' = add_documents(vectors, job[u].total_chunks, ClassNum(u), JobSubject,
                              Chapter, FileName(u), 1)
  /\ job' = [job EXCEPT ![u].pc = "progress_90"]
  /\ UNCHANGED <<chatVars, llm, ws, uploaded_books, book_chapters, otherVars>>

\* add_documents raises: index not initialized, embedding or upsert error
ProcessAddDocumentsFails(u) ==
  /\ job[u].pc = "add_documents"
  /\ job' = [job EXCEPT ![u].error = "Pinecone not initialized", ![u].pc = "except"]
  /\ UNCHANGED <<chatVars, llm, ws, uploaded_books, vectors, book_chapters, otherVars>>

\* progress 90
ProcessProgress90(u) ==
  /\ job[u].pc = "progress_90"
  /\ uploaded_books' = update_upload_status(u, "processing", 90)
  /\ job' = [job EXCEPT ![u].pc = "chapter"]
  /\ UNCHANGED <<chatVars, llm, ws, vectors, book_chapters, otherVars>>

\* 8. db.book_chapters.insert_one
ProcessChapter(u) ==
  /\ job[u].pc = "chapter"
  /\ book_chapters' = book_chapters \cup
       {[source_file |-> FileName(u), class_num |-> ClassNum(u),
         chunks_count |-> job[u].total_chunks,
         text_length |-> job[u].text_content.clean]}
  /\ job' = [job EXCEPT ![u].pc = "complete"]
  /\ UNCHANGED <<chatVars, llm, ws, uploaded_books, vectors, otherVars>>

\* 9. $set status = completed, progress_percent = 100, chunks_processed
ProcessComplete(u) ==
  /\ job[u].pc = "complete"
  /\ uploaded_books' = update_one(u, [status |-> "completed", progress_percent |-> 100,
                                      chunks_processed |-> job[u].total_chunks])
  /\ job' = [job EXCEPT ![u].pc = "exited"]
  /\ UNCHANGED <<chatVars, llm, ws, vectors, book_chapters, otherVars>>

\* except Exception as e: record the failure
ProcessExcept(u) ==
  /\ job[u].pc = "except"
  /\ uploaded_books' = MarkFailed(u, job[u].error)
  /\ job' = [job EXCEPT ![u].pc = "exited"]
  /\ UNCHANGED <<chatVars, llm, ws, vectors, book_chapters, otherVars>>

\* a write to the document store raises: inside the try it is caught by the
\* except branch, inside the except branch it leaves process_document
StoreWriteFails(u) ==
  /\ job[u].pc \in StoreWrites
  /\ job' = IF job[u].pc = "except"
            THEN [job EXCEPT ![u].pc = "escaped"]
            ELSE [job EXCEPT ![u].error = "document store error", ![u].pc = "except"]
  /\ UNCHANGED <<chatVars, llm, ws, uploaded_books, vectors, book_chapters, otherVars>>


\* ------------------------------------------------- admin.py: delete_book()
\* book = await db.uploaded_books.find_one({"_id": book_id}); 404 if none
DeleteBookFind(u) ==
  /\ deletion[u].pc = "none"
  /\ uploaded_books[u] # <<>>
  /\ deletion' = [deletion EXCEPT ![u] = [pc |-> "delete_by_source",
                                          book |-> uploaded_books[u]]]
  /\ UNCHANGED <<chatVars, llm, ws, ingestVars, ck, hq, fan, pine, chat_history, svc>>

\* await delete_by_source(book["filename"], book["subject"])
DeleteBookVectors(u) ==
  /\ deletion[u].pc = "delete_by_source"
  /\ vectors' = delete_by_source(vectors, deletion[u].book[1].filename,
                                 deletion[u].book[1].subject)
  /\ deletion' = [deletion EXCEPT ![u].pc = "delete_one"]
  /\ UNCHANGED <<chatVars, llm, ws, uploaded_books, job, book_chapters,
                 ck, hq, fan, pine, chat_history, svc>>

\* delete_by_source raises or the index is not initialized: logged, ignored
DeleteBookVectorsFails(u) ==
  /\ deletion[u].pc = "delete_by_source"
  /\ deletion' = [deletion EXCEPT ![u].pc = "delete_one"]
  /\ UNCHANGED <<chatVars, llm, ws, ingestVars, ck, hq, fan, pine, chat_history, svc>>

\* await db.uploaded_books.delete_one({"_id": book["_id"]})
DeleteBookRecord(u) ==
  /\ deletion[u].pc = "delete_one"
  /\ uploaded_books' = [uploaded_books EXCEPT ![u] = <<>>]
  /\ deletion' = [deletion EXCEPT ![u].pc = "delete_many"]
  /\ UNCHANGED <<chatVars, llm, ws, job, vectors, book_chapters,
                 ck, hq, fan, pine, chat_history, svc>>

\* await db.book_chapters.delete_many({"source_file": source_file}); return
DeleteBookChapters(u) ==
  /\ deletion[u].pc = "delete_many"
  /\ book_chapters' =
       {c \in book_chapters : c.source_file # deletion[u].book[1].filename}
  /\ deletion' = [deletion EXCEPT ![u].pc = "done"]
  /\ UNCHANGED <<chatVars, llm, ws, uploaded_books, job, vectors,
                 ck, hq, fan, pine, chat_history, svc>>

\* --------------------------------------------------------- chunk_text()
\* para.replace('. ', '.\n').split('\n')
Sentences(para) == split(replace(para, <<".", " ">>, <<".", "\n">>), <<"\n">>)

FlushChunk_drop(chunks, current_chunk) == chunks

\* if current_chunk: chunks.append(current_chunk.strip())
FlushChunk(chunks, current_chunk) ==
  IF current_chunk # <<>> THEN Append(chunks, strip(current_chunk)) ELSE chunks

\* one iteration of for sentence in sentences
AddSentence(st, sentence, chunk_size) ==
  IF Len(st.current_chunk) + Len(sentence) > chunk_size
  THEN [chunks |-> FlushChunk(st.chunks, st.current_chunk),
        current_chunk |-> sentence]
  ELSE [st EXCEPT !.current_chunk =
          IF @ # <<>> THEN @ \o <<" ">> \o sentence ELSE sentence]

RECURSIVE AddSentences(_, _, _)
AddSentences(st, sentences, chunk_size) ==
  IF sentences = <<>> THEN st
  ELSE AddSentences(AddSentence(st, Head(sentences), chunk_size),
                    Tail(sentences), chunk_size)

AddParagraph_eager(st, paragraph, chunk_size) ==
  [chunks |-> FlushChunk(st.chunks, st.current_chunk),
   current_chunk |-> strip(paragraph)]

\* one iteration of for para in paragraphs
AddParagraph(st, paragraph, chunk_size) ==
  LET para == strip(paragraph)
  IN  IF para = <<>> THEN st
      ELSE IF Len(st.current_chunk) + Len(para) > chunk_size
      THEN LET flushed == FlushChunk(st.chunks, st.current_chunk)
           IN  IF Len(para) > chunk_size
               THEN AddSentences([chunks |-> flushed, current_chunk |-> <<>>],
                                 Sentences(para), chunk_size)
               ELSE [chunks |-> flushed, current_chunk |-> para]
      ELSE [st EXCEPT !.current_chunk =
              IF @ # <<>> THEN @ \o ParagraphBreak \o para ELSE para]

RECURSIVE AddParagraphs(_, _, _)
AddParagraphs(st, paragraphs, chunk_size) ==
  IF paragraphs = <<>> THEN st
  ELSE AddParagraphs(AddParagraph(st, Head(paragraphs), chunk_size),
                     Tail(paragraphs), chunk_size)

Suffix_head(s, n) == SubSeq(s, 1, IF Len(s) > n THEN n ELSE Len(s))

\* s[-n:] for n > 0
Suffix(s, n) == SubSeq(s, IF Len(s) > n THEN Len(s) - n + 1 ELSE 1, Len(s))

\* the overlap pass: chunk = chunks[i-1][-overlap:] + " " + chunk
AddOverlap(chunks, overlap) ==
  [i \in 1..Len(chunks) |->
     IF i > 1 THEN Suffix(chunks[i - 1], overlap) \o <<" ">> \o chunks[i]
     ELSE chunks[i]]

\* chunk_text(text, chunk_size, overlap)
chunk_text(text, chunk_size, overlap) ==
  IF text = <<>> THEN <<>>
  ELSE LET st == AddParagraphs([chunks |-> <<>>, current_chunk |-> <<>>],
                               split(strip(text), ParagraphBreak), chunk_size)
           chunks == FlushChunk(st.chunks, st.current_chunk)
       IN  IF overlap > 0 /\ Len(chunks) > 1 THEN AddOverlap(chunks, overlap)
           ELSE chunks

\* the paragraphs the texts of the model are made of
ParagraphPool ==
  { <<"a">>,
    <<"b", "b">>,
    <<"b", " ", "a">>,
    <<"a", ".", " ", "b">>,
    <<"a", ".", " ", "b", ".", " ", "a">>,
    <<"a", "\n", " ", "\n", "b">>,
    <<" ">> }

\* "\n\n".join(paragraphs)
RECURSIVE JoinParagraphs(_)
JoinParagraphs(paragraphs) ==
  IF Len(paragraphs) = 1 THEN paragraphs[1]
  ELSE paragraphs[1] \o ParagraphBreak \o JoinParagraphs(Tail(paragraphs))

Texts ==
  {<<>>} \cup
  {JoinParagraphs(ps) : ps \in UNION {[1..k -> ParagraphPool] : k \in 1..MaxParagraphs}}

CkIdle ==
  [text |-> <<>>, chunk_size |-> 1, overlap |-> 0, out |-> <<>>, done |-> FALSE]

\* chunks = chunk_text(text, chunk_size, overlap)
ChunkText ==
  /\ ~ck.done
  /\ ck' = [ck EXCEPT !.out = chunk_text(ck.text, ck.chunk_size, ck.overlap),
                      !.done = TRUE]
  /\ UNCHANGED <<chatVars, llm, ws, ingestVars, hq, fan, pine, chat_history, svc, deletion>>

\* ------------------------------------------- two calls of _hash_question
\* request.subject: absent, empty or given
Subjects == {<<>>, <<"">>, <<"any">>, <<"Physics">>, <<"physics">>}

HashArgs == [query : Questions, grade : Grades, subject : Subjects]

HqIdle ==
  [a |-> [query |-> <<>>, grade |-> NoGrade, subject |-> <<>>],
   b |-> [query |-> <<>>, grade |-> NoGrade, subject |-> <<>>],
   hash_a |-> <<>>, hash_b |-> <<>>, done |-> FALSE]

\* question_hash = self._hash_question(query, grade, subject), twice
HashBoth ==
  /\ ~hq.done
  /\ hq' = [hq EXCEPT !.hash_a = _hash_question(hq.a.query, hq.a.grade, hq.a.subject),
                      !.hash_b = _hash_question(hq.b.query, hq.b.grade, hq.b.subject),
                      !.done = TRUE]
  /\ UNCHANGED <<chatVars, llm, ws, ingestVars, ck, fan, pine, chat_history, svc, deletion>>

\* ------------------------------------- query_vectors without a subject
namespaces_to_query ==
  <<"", "mathematics", "science", "physics", "chemistry", "biology", "english",
    "social_science">>

\* the namespaces that hold vectors, and those whose query may raise
PopulatedNamespaces == {"", "physics"}
FailingCandidates == {"", "physics", "biology"}

FanIdle ==
  [ranked |-> [ns \in PopulatedNamespaces |-> <<>>], failing |-> {},
   top_k |-> RAG_TOP_K, result |-> <<>>, raised |-> FALSE, done |-> FALSE]

\* the matches of one namespace for the question, ranked by descending score
NamespaceMatches(ranked, ns) ==
  IF ns \in DOMAIN ranked
  THEN [i \in 1..Len(ranked[ns]) |-> [namespace |-> ns, id |-> i, score |-> ranked[ns][i]]]
  ELSE <<>>

\* _pinecone_index.query(top_k=3, namespace=ns).matches
QueryNamespace(ranked, ns) == Take(NamespaceMatches(ranked, ns), PerNamespaceTopK)

FanOutRaises_propagate(failing) == failing # {}

\* except: pass -- no failure of a namespace query leaves the loop
FanOutRaises(failing) == FALSE

\* for ns in namespaces_to_query: all_results.extend(results.matches), the
\* namespaces whose query raises are passed over
RECURSIVE Gather(_, _, _)
Gather(ranked, failing, namespaces) ==
  IF namespaces = <<>> THEN <<>>
  ELSE (IF Head(namespaces) \in failing THEN <<>>
        ELSE QueryNamespace(ranked, Head(namespaces)))
       \o Gather(ranked, failing, Tail(namespaces))

\* list.sort on one more element: after the elements that do not score less
InsertByScore(sorted, m) ==
  LET before == {i \in 1..Len(sorted) : sorted[i].score >= m.score}
      k == IF before = {} THEN 0 ELSE CHOOSE i \in before : \A j \in before : j <= i
  IN  SubSeq(sorted, 1, k) \o <<m>> \o SubSeq(sorted, k + 1, Len(sorted))

RECURSIVE SortInto(_, _)
SortInto(sorted, rest) ==
  IF rest = <<>> THEN sorted
  ELSE SortInto(InsertByScore(sorted, Head(rest)), Tail(rest))

SortByScore_unsorted(all_results) == all_results

\* all_results.sort(key=lambda x: x.score, reverse=True): stable
SortByScore(all_results) == SortInto(<<>>, all_results)

\* query_vectors, subject absent: gather, sort, all_results[:top_k]
query_vectors_fan_out(ranked, failing, top_k) ==
  Take(SortByScore(Gather(ranked, failing, namespaces_to_query)), top_k)

\* results = await query_vectors(query_text, class_num, subject=None, top_k)
FanOutQuery ==
  /\ ~fan.done
  /\ fan' = [fan EXCEPT
       !.raised = FanOutRaises(fan.failing),
       !.result = IF FanOutRaises(fan.failing) THEN <<>>
                  ELSE query_vectors_fan_out(fan.ranked, fan.failing, fan.top_k),
       !.done = TRUE]
  /\ UNCHANGED <<chatVars, llm, ws, ingestVars, ck, hq, pine, chat_history, svc, deletion>>

\* -------------------------------------- mongodb.py: _mongo_client, _db
Tasks == {"t1", "t2"}
NoHandle == 0                            \* _db = None

TaskIdle == [pc |-> "idle", attempt |-> 0, handle |-> NoHandle]

\* db: _db (the number of the client it belongs to), clients: clients created,
\* connected: initializations that passed the connection test
SvcIdle ==
  [db |-> NoHandle, clients |-> 0, connected |-> 0, task |-> [t \in Tasks |-> TaskIdle]]

\* the startup call of init_mongodb has passed
SvcStarted == [SvcIdle EXCEPT !.db = 1, !.clients = 1, !.connected = 1]

\* await ensure_connected() and what follows it without an await: if _db is
\* None, init_mongodb() runs up to its first await, _mongo_client and _db being
\* assigned before the connection test; otherwise is_db_connected() holds and
\* db = get_db() is used for the first operation
EnsureConnected(t) ==
  /\ svc.task[t].pc = "idle"
  /\ svc.db # NoHandle \/ svc.clients < MaxClients
  /\ svc' = IF svc.db = NoHandle
            THEN [svc EXCEPT !.db = svc.clients + 1, !.clients = @ + 1,
                             !.task[t].pc = "ping"]
            ELSE [svc EXCEPT !.task[t].handle = svc.db, !.task[t].pc = "using"]
  /\ UNCHANGED <<chatVars, llm, ws, ingestVars, ck, hq, fan, pine, chat_history, deletion>>

\* await _mongo_client.admin.command('ping') returns; create_indexes logs its
\* own errors; ensure_connected returns True and the caller takes get_db()
PingSucceeds(t) ==
  /\ svc.task[t].pc = "ping"
  /\ svc' = [svc EXCEPT !.connected = @ + 1, !.task[t].handle = svc.db,
                        !.task[t].pc = "using"]
  /\ UNCHANGED <<chatVars, llm, ws, ingestVars, ck, hq, fan, pine, chat_history, deletion>>

\* the ping raises: sleep and retry, and after the last attempt the except
\* branch of init_mongodb sets _mongo_client = None, _db = None; the caller
\* finds is_db_connected() false and gives up
PingFails(t) ==
  /\ svc.task[t].pc = "ping"
  /\ svc' = IF svc.task[t].attempt < PingAttempts - 1
            THEN [svc EXCEPT !.task[t].attempt = @ + 1]
            ELSE [svc EXCEPT !.db = NoHandle, !.task[t].pc = "error"]
  /\ UNCHANGED <<chatVars, llm, ws, ingestVars, ck, hq, fan, pine, chat_history, deletion>>

\* the next operation of the request: db = get_db(), RuntimeError if _db is None
GetDb(t) ==
  /\ svc.task[t].pc = "using"
  /\ svc' = IF svc.db = NoHandle
            THEN [svc EXCEPT !.task[t].pc = "error"]
            ELSE [svc EXCEPT !.task[t].handle = svc.db, !.task[t].pc = "using_next"]
  /\ UNCHANGED <<chatVars, llm, ws, ingestVars, ck, hq, fan, pine, chat_history, deletion>>

\* the request returns, or gives up on its error
TaskEnds(t) ==
  /\ svc.task[t].pc \in {"using", "using_next", "error"}
  /\ svc' = [svc EXCEPT !.task[t] = TaskIdle]
  /\ UNCHANGED <<chatVars, llm, ws, ingestVars, ck, hq, fan, pine, chat_history, deletion>>

\* --------------------------------------------------------- specifications
\* ranked score lists of at most n vectors
Corpora(n) ==
  {s \in UNION {[1..k -> Scores] : k \in 0..n} :
     \A i \in 1..(Len(s) - 1) : s[i] >= s[i + 1]}

\* Spec: one corpus without and one with vectors above the threshold
MainCorpora == {<<6>>, <<8, 7, 6>>}

Init ==
  /\ now = 0
  /\ chat_cache = {}
  /\ index \in MainCorpora
  /\ req = [r \in Requests |-> Idle]
  /\ llm = LlmIdle
  /\ ws = WsIdle
  /\ IngestAtRest
  /\ chat_history = <<>>
  /\ svc = SvcIdle
  /\ ck = CkIdle
  /\ hq = HqIdle
  /\ fan = FanIdle
  /\ pine = PineIdle

\* Two users chat concurrently about one question; answers are reported
\* wrong, time passes and the TTL sweep runs.
Next ==
  \/ \E r \in Requests, g \in Grades : ChatStart(r, PlainQuestion, g, "en")
  \/ \E r \in Requests : ProcessQueryCache(r)
  \/ \E r \in Requests : ProcessQueryRetrieve(r)
  \/ \E r \in Requests : ProcessQueryRetrieveFails(r)
  \/ \E r \in Requests : ProcessQueryHistory(r)
  \/ \E r \in Requests : ChatGenerate(r, AnswerOf(r))
  \/ \E r \in Requests : ChatSave(r)
  \/ \E r \in Requests : ChatCachePut(r)
  \/ \E r \in Requests : ChatRespond(r)
  \/ \E g \in Grades : report_wrong_answer(_hash_question(PlainQuestion, g, Subject))
  \/ Tick
  \/ TtlSweep

Spec == Init /\ [][Next]_vars

\* the first request after start-up: no request in flight, nothing cached yet
ColdStart(r, message, grade, language) ==
  /\ \A s \in Requests : req[s].pc = "idle"
  /\ chat_cache = {}
  /\ ChatStart(r, message, grade, language)

InitQuery ==
  /\ now = 0
  /\ chat_cache = {}
  /\ index \in Corpora(MaxDocs)
  /\ req = [r \in Requests |-> Idle]
  /\ llm = LlmIdle
  /\ ws = WsIdle
  /\ IngestAtRest
  /\ chat_history = <<>>
  /\ svc = SvcIdle
  /\ ck = CkIdle
  /\ hq = HqIdle
  /\ fan = FanIdle
  /\ pine = PineIdle

\* One request at a time against a cold cache, over every question, grade,
\* language and corpus of the bounds.
NextQuery ==
  \/ \E r \in Requests, q \in Questions, g \in Grades, l \in Languages :
       ColdStart(r, q, g, l)
  \/ \E r \in Requests : ProcessQueryCache(r)
  \/ \E r \in Requests : ProcessQueryRetrieve(r)
  \/ \E r \in Requests : ProcessQueryRetrieveFails(r)
  \/ \E r \in Requests : ProcessQueryHistory(r)
  \/ \E r \in Requests : ChatGenerate(r, AnswerOf(r))
  \/ \E r \in Requests : ChatSave(r)
  \/ \E r \in Requests : ChatCachePut(r)
  \/ \E r \in Requests : ChatRespond(r)

SpecQuery == InitQuery /\ [][NextQuery]_vars

\* ================================================================ claims
\* the set of elements of a sequence
Range(s) == {s[i] : i \in 1..Len(s)}

\* process_query has returned to chat() from a retrieval (not from the cache,
\* not by an exception)
Retrieved(r) == req[r].retrieverCalls = 1 /\ req[r].prompt.kind # "direct"

\* every source cites a vector of the index whose score reaches the threshold
Grounded(sources) ==
  /\ Len(sources) >= 1
  /\ \A i \in 1..Len(sources) :
       /\ sources[i].doc \in 1..Len(index)
       /\ index[sources[i].doc] >= RAG_MIN_RELEVANCE_SCORE

\* C1: an entry whose expires_at is in the past yields a miss from get,
\* whatever its is_valid and although the TTL sweep has not removed it yet.
C1_ExpiredEntryIsMiss ==
  \A d \in chat_cache :
    d.expires_at < now => get_cached_response(d.question_hash) = <<>>

\* C2: the chat endpoint puts a cache entry only for an in-scope answer with at
\* least one source whose score reaches the threshold; never after an
\* out-of-scope result, never after the direct prompt of a failed retrieval.
C2_PutOnlyGrounded ==
  /\ \A r \in Requests :
       (req[r].pc = "cache_put" \/ req[r].puts > 0) =>
         /\ req[r].is_in_scope
         /\ req[r].prompt.kind = "rag"
         /\ Grounded(req[r].sources)
  /\ \A d \in chat_cache : Grounded(d.sources)

C2_Witness ==
  \E r, s \in Requests :
    /\ req[r].pc = "respond" /\ req[r].puts = 1 /\ req[r].retrieverCalls = 1
    /\ req[s].pc = "respond" /\ req[s].puts = 0 /\ req[s].prompt.kind = "direct"

\* C3: a request whose query is out of scope is answered with the refusal and
\* makes no call to the completion provider.
C3_OutOfScopeNoGeneration ==
  \A r \in Requests :
    (req[r].pc = "respond" /\ ~req[r].is_in_scope) =>
      /\ req[r].llmCalls = 0
      /\ req[r].response = req[r].context.text

\* C4: a request that hit the cache is answered with the cached answer and
\* makes no call to the completion provider.
C4_HitAnsweredFromCache ==
  \A r \in Requests :
    (req[r].pc = "respond" /\ req[r].cached # <<>>) =>
      /\ req[r].llmCalls = 0
      /\ req[r].response = req[r].cached[1].answer

\* C5: when the looked-up key has a valid entry, process_query returns
\* inScope = true with that entry's sources without calling the retriever;
\* the retriever is only ever called after a lookup that missed.
C5_HitBypassesRetriever ==
  [][\A r \in Requests :
       /\ (req[r].pc = "cache_get" /\ req'[r].pc # "cache_get") =>
            LET valid == {d \in chat_cache :
                            d.question_hash = LookupHash(r) /\ d.is_valid}
            IN  valid # {} =>
                  /\ req'[r].pc = "generate"
                  /\ req'[r].is_in_scope
                  /\ req'[r].retrieverCalls = 0
                  /\ \E d \in valid : req'[r].sources = d.sources
       /\ req'[r].retrieverCalls > req[r].retrieverCalls =>
            /\ req[r].pc = "retrieve"
            /\ req[r].cached = <<>>
    ]_vars

C5_Witness ==
  \E r \in Requests :
    /\ req[r].pc = "generate" /\ req[r].cached # <<>>
    /\ req[r].retrieverCalls = 0 /\ req[r].is_in_scope /\ req[r].sources # <<>>

\* C6: after report_wrong_answer(h) every get(h) is a miss, before TTL expiry
\* too, until a put for h; the report needs no prior get.
C6_InvalidateThenMiss ==
  [][\A h \in Hashes :
       /\ report_wrong_answer(h) => get_cached_response(h)' = <<>>
       /\ (get_cached_response(h) = <<>> /\ get_cached_response(h)' # <<>>) =>
            \E r \in Requests : ChatCachePut(r) /\ StoreHash(r) = h
    ]_vars

C6_Witness ==
  \E d \in chat_cache :
    /\ ~d.is_valid /\ now < d.expires_at
    /\ get_cached_response(d.question_hash) = <<>>

\* C7: right after a put, get of the same key returns the answer and sources
\* just written, with is_valid = true and hit_count = 0, whatever entry the
\* key had before.
C7_PutThenGet ==
  [][\A r \in Requests :
       ChatCachePut(r) =>
         LET got == get_cached_response(StoreHash(r))'
         IN  /\ got # <<>>
             /\ got[1].answer = req[r].response
             /\ got[1].sources = req[r].sources
             /\ got[1].is_valid
             /\ got[1].hit_count = 0
    ]_vars

\* a put has replaced an entry that held another answer
C7_Witness ==
  \E r \in Requests :
    /\ req[r].pc = "respond" /\ req[r].puts = 1
    /\ req[r].cached # <<>> /\ LookupHash(r) = StoreHash(r)
    /\ req[r].cached[1].answer # req[r].response
    /\ \E d \in chat_cache :
         /\ d.question_hash = StoreHash(r) /\ d.answer = req[r].response
         /\ d.is_valid /\ d.hit_count = 0

\* C8: the cache never holds two entries with the same question_hash.
C8_OneEntryPerHash ==
  \A d1, d2 \in chat_cache : d1.question_hash = d2.question_hash => d1 = d2

\* two keys are cached, one of them written over an existing entry
C8_Witness ==
  /\ Cardinality(chat_cache) = 2
  /\ \E r \in Requests :
       /\ req[r].puts = 1 /\ req[r].cached # <<>> /\ LookupHash(r) = StoreHash(r)

\* C9: of the candidates the retriever returned, those below the threshold
\* appear neither in the sources nor in the context, and those at or above
\* it (a score equal to the threshold included) are all among the sources.
C9_LowScoreNeverReturned ==
  \A r \in Requests :
    Retrieved(r) =>
      LET results == query_vectors(QueryGrade(r), RAG_TOP_K)
          sourceDocs == {x.doc : x \in Range(req[r].sources)}
          contextDocs == {x.doc : x \in Range(req[r].context.parts)}
      IN  /\ \A m \in Range(results) :
                IF m.score < RAG_MIN_RELEVANCE_SCORE
                THEN m.id \notin sourceDocs \cup contextDocs
                ELSE m.id \in sourceDocs
          /\ sourceDocs \subseteq {m.id : m \in Range(results)}
          /\ contextDocs \subseteq sourceDocs

\* the top_k results hold a score below, one equal to and one above the
\* threshold, and the context is cut to rerank_top_k
C9_Witness ==
  \E r \in Requests :
    /\ Retrieved(r) /\ req[r].pc = "generate"
    /\ LET results == query_vectors(QueryGrade(r), RAG_TOP_K)
       IN  /\ Len(results) = RAG_TOP_K
           /\ \E m \in Range(results) : m.score < RAG_MIN_RELEVANCE_SCORE
           /\ \E m \in Range(results) : m.score = RAG_MIN_RELEVANCE_SCORE
    /\ Len(req[r].sources) > Len(req[r].context.parts)
    /\ Len(req[r].context.parts) = RAG_RERANK_TOP_K

\* the refusal text of each language
RefusalText(lang) ==
  IF lang = "hi" THEN "refusal_hi" ELSE IF lang = "ur" THEN "refusal_ur" ELSE "refusal_en"

\* C10: when no retrieved candidate reaches the threshold, process_query
\* returns inScope = false, no sources and the refusal of the language
\* detected from the query text, and fetches no conversation history.
C10_OutOfScopeResult ==
  \A r \in Requests :
    ( /\ Retrieved(r)
      /\ \A m \in Range(query_vectors(QueryGrade(r), RAG_TOP_K)) :
           m.score < RAG_MIN_RELEVANCE_SCORE ) =>
      /\ ~req[r].is_in_scope
      /\ req[r].sources = <<>>
      /\ req[r].context = TextContext(RefusalText(_detect_language(req[r].message)))
      /\ req[r].historyCalls = 0

\* a Hindi question asked with another language parameter is refused in Hindi
C10_Witness ==
  \E r \in Requests :
    /\ Retrieved(r) /\ ~req[r].is_in_scope
    /\ req[r].language = "ur"
    /\ _detect_language(req[r].message) = "hi"
    /\ req[r].context.text = "refusal_hi"
    /\ query_vectors(QueryGrade(r), RAG_TOP_K) # <<>>

\* ================================================== further specifications
\* a request starts when no other request is in flight
Sequential(r, message, grade, language) ==
  /\ \A q \in Requests : req[q].pc = "idle"
  /\ ChatStart(r, message, grade, language)

InitStream ==
  /\ now = 0
  /\ chat_cache = {}
  /\ index \in MainCorpora
  /\ req = [r \in Requests |-> Idle]
  /\ llm = LlmIdle
  /\ ws = WsIdle
  /\ IngestAtRest
  /\ chat_history = <<>>
  /\ svc = SvcIdle
  /\ ck = CkIdle
  /\ hq = HqIdle
  /\ fan = FanIdle
  /\ pine = PineIdle

\* The two callers of the query pipeline side by side: chat() requests, one
\* at a time, and one WebSocket connection; the vector query may raise.
NextStream ==
  \/ \E r \in Requests, g \in Grades : Sequential(r, PlainQuestion, g, "en")
  \/ \E r \in Requests : ProcessQueryCache(r)
  \/ \E r \in Requests : ProcessQueryRetrieve(r)
  \/ \E r \in Requests : ProcessQueryRetrieveFails(r)
  \/ \E r \in Requests : ProcessQueryHistory(r)
  \/ \E r \in Requests : ChatGenerate(r, AnswerOf(r))
  \/ \E r \in Requests : ChatSave(r)
  \/ \E r \in Requests : ChatCachePut(r)
  \/ \E r \in Requests : ChatRespond(r)
  \/ StreamAccept
  \/ \E g \in Grades : StreamReceive(PlainQuestion, g, "en")
  \/ StreamQueryCache
  \/ StreamQueryRetrieve
  \/ StreamQueryRetrieveFails
  \/ StreamSendSources
  \/ StreamSendStart
  \/ \E f \in Fragments : StreamChunk(f)
  \/ StreamSendEnd
  \/ StreamProviderFails
  \/ ClientLeaves
  \/ StreamDisconnect

SpecStream == InitStream /\ [][NextStream]_vars

InitLLM ==
  /\ now = 0
  /\ chat_cache = {}
  /\ index \in MainCorpora
  /\ req = [r \in Requests |-> Idle]
  /\ llm \in {[LlmIdle EXCEPT !.api_key = k] : k \in BOOLEAN}
  /\ ws = WsIdle
  /\ IngestAtRest
  /\ chat_history = <<>>
  /\ svc = SvcIdle
  /\ ck = CkIdle
  /\ hq = HqIdle
  /\ fan = FanIdle
  /\ pine = PineIdle

\* chat() requests, one at a time, with the provider call spelled out: every
\* HTTP request of the retry loop can get every response.
NextLLM ==
  \/ \E r \in Requests, g \in Grades : Sequential(r, PlainQuestion, g, "en")
  \/ \E r \in Requests : ProcessQueryCache(r)
  \/ \E r \in Requests : ProcessQueryRetrieve(r)
  \/ \E r \in Requests : ProcessQueryRetrieveFails(r)
  \/ \E r \in Requests : ProcessQueryHistory(r)
  \/ \E r \in Requests : GenerateBegin(r)
  \/ \E o \in Outcomes : GeminiPost(o)
  \/ GenerateReturns
  \/ GenerateRaises
  \/ \E r \in Requests : ChatSave(r)
  \/ \E r \in Requests : ChatCachePut(r)
  \/ \E r \in Requests : ChatRespond(r)
  \/ \E r \in Requests : ChatRespondError(r)

SpecLLM == InitLLM /\ [][NextLLM]_vars

InitIngest ==
  /\ now = 0
  /\ chat_cache = {}
  /\ index \in MainCorpora
  /\ req = [r \in Requests |-> Idle]
  /\ llm = LlmIdle
  /\ ws = WsIdle
  /\ IngestAtRest
  /\ chat_history = <<>>
  /\ svc = SvcIdle
  /\ ck = CkIdle
  /\ hq = HqIdle
  /\ fan = FanIdle
  /\ pine = PineIdle

\* Every document of the bounds is uploaded and processed; any write to the
\* document store and the call of add_documents may raise.
NextIngest ==
  \/ \E u \in UploadIds, d \in Documents : upload_book(u, d)
  \/ \E u \in UploadIds : ProcessStart(u)
  \/ \E u \in UploadIds : ProcessExtractNative(u)
  \/ \E u \in UploadIds : ProcessExtractImages(u)
  \/ \E u \in UploadIds : ProcessSelectText(u)
  \/ \E u \in UploadIds : ProcessClean(u)
  \/ \E u \in UploadIds : ProcessChunk(u)
  \/ \E u \in UploadIds : ProcessProgress55(u)
  \/ \E u \in UploadIds : ProcessProgress65(u)
  \/ \E u \in UploadIds : ProcessAddDocuments(u)
  \/ \E u \in UploadIds : ProcessAddDocumentsFails(u)
  \/ \E u \in UploadIds : ProcessProgress90(u)
  \/ \E u \in UploadIds : ProcessChapter(u)
  \/ \E u \in UploadIds : ProcessComplete(u)
  \/ \E u \in UploadIds : ProcessExcept(u)
  \/ \E u \in UploadIds : StoreWriteFails(u)

SpecIngest == InitIngest /\ [][NextIngest]_vars

InitChunk ==
  /\ now = 0
  /\ chat_cache = {}
  /\ index = <<>>
  /\ req = [r \in Requests |-> Idle]
  /\ llm = LlmIdle
  /\ ws = WsIdle
  /\ IngestAtRest
  /\ chat_history = <<>>
  /\ svc = SvcIdle
  /\ ck \in {[CkIdle EXCEPT !.text = t, !.chunk_size = S, !.overlap = O] :
               t \in Texts, S \in 1..MaxChunkSize, O \in 0..(MaxChunkSize - 1)}
  /\ ck.overlap < ck.chunk_size
  /\ hq = HqIdle
  /\ fan = FanIdle
  /\ pine = PineIdle

\* chunk_text applied to every text, chunk size and overlap of the bounds
NextChunk == ChunkText

SpecChunk == InitChunk /\ [][NextChunk]_vars

\* ======================================================== further claims
\* C11: when the vector query raises because the index or the embedding
\* model is not initialized, both callers go on without retrieval context:
\* the chat() request is answered from the direct prompt, and the WebSocket
\* request is not ended without its answer being generated.
C11_UnavailableStillAnswered ==
  /\ \A r \in Requests :
       (req[r].prompt.kind = "direct" /\ req[r].pc \in {"save", "cache_put", "respond"})
         => req[r].llmCalls = 1 /\ req[r].response = AnswerOf(r)
  /\ ~(ws.pc = "closed" /\ ws.raised = "RuntimeError" /\ ws.llmCalls = 0)

\* every request of the call got the same response
AllOutcomes(call, outcome) ==
  /\ call.outcomes # <<>>
  /\ \A i \in 1..Len(call.outcomes) : call.outcomes[i] = outcome

\* C12: a provider failure that outlasts the retries reaches the user of
\* chat() as a fallback message: generate does not raise and the request
\* does not end in HTTP 500.
C12_ProviderFailureIsFallback ==
  /\ llm.pc # "raised"
  /\ \A r \in Requests : req[r].pc # "http_500"
  /\ (llm.pc = "returned" /\ llm.requests = max_retries
        /\ llm.outcomes[max_retries] \notin {"ok", "empty"})
       => llm.result \in FallbackMessages

\* C13: rate-limited requests are retried up to max_retries requests in all,
\* after delays of 2s and then 4s; the high-demand message is returned only
\* when the last of the max_retries requests was rate-limited too; a
\* successful request ends the call with its answer.
C13_RateLimitRetries ==
  LET n == Len(llm.outcomes)
  IN  /\ llm.requests = n /\ n <= max_retries
      /\ AllOutcomes(llm, "429") =>
           /\ llm.sleeps = Take(<<retry_delay, 2 * retry_delay>>, n)
           /\ (n < max_retries => llm.pc = "post")
           /\ (n = max_retries => llm.pc # "post" /\ llm.result = HighDemandMessage)
      /\ llm.result = HighDemandMessage =>
           n = max_retries /\ llm.outcomes[n] = "429"
      /\ \A i \in 1..n : llm.outcomes[i] = "ok" =>
           i = n /\ llm.pc # "post" /\ llm.result = AnswerOf(llm.caller)

C13_Witness ==
  /\ AllOutcomes(llm, "429")
  /\ llm.pc = "returned"
  /\ llm.sleeps = <<2, 4>>
  /\ llm.result = HighDemandMessage

\* C14: a call in which every request times out issues exactly two requests
\* and returns the taking-too-long message.
C14_TimeoutRetriedOnce ==
  AllOutcomes(llm, "timeout") =>
    /\ llm.requests <= 2
    /\ (llm.requests = 2 => llm.pc # "post" /\ llm.result = TooLongMessage)

\* C15: a 400 response ends the call at once with the rephrase message,
\* on whatever attempt it comes: no request follows it.
C15_ClientErrorNotRetried ==
  \A i \in 1..Len(llm.outcomes) : llm.outcomes[i] = "400" =>
    /\ i = Len(llm.outcomes)
    /\ llm.pc # "post"
    /\ llm.result = RephraseMessage

C15_Witness ==
  /\ llm.pc = "returned"
  /\ Len(llm.outcomes) = max_retries
  /\ llm.outcomes[max_retries] = "400"
  /\ llm.result = RephraseMessage

\* pending < processing < completed, failed
Rank(status) ==
  CASE status = "pending" -> 0
    [] status = "processing" -> 1
    [] status \in {"completed", "failed"} -> 2

\* C16: in every step the status of an upload record does not move backwards
\* and does not leave completed or failed, and a record whose status is
\* failed carries an error message.
C16_StatusForwardOnly ==
  [][\A u \in UploadIds :
       (uploaded_books[u] # <<>> /\ uploaded_books'[u] # <<>>) =>
         LET old == uploaded_books[u][1]
             new == uploaded_books'[u][1]
         IN  /\ Rank(new.status) >= Rank(old.status)
             /\ old.status \in {"completed", "failed"} => new.status = old.status
             /\ new.status = "failed" => new.error_message # <<>>]_vars

C16_Witness ==
  \E u \in UploadIds :
    /\ uploaded_books[u] # <<>>
    /\ uploaded_books[u][1].status = "failed"
    /\ uploaded_books[u][1].progress_percent = 90
    /\ uploaded_books[u][1].error_message = <<"document store error">>

\* C17: a job that has left process_document has left it normally, with
\* the status of its upload record completed or failed.
C17_JobEndsRecorded ==
  \A u \in UploadIds :
    /\ job[u].pc # "escaped"
    /\ job[u].pc = "exited" =>
         uploaded_books[u][1].status \in {"completed", "failed"}

\* C18: a job whose cleaned text is shorter than 100 characters ends with
\* status failed and an error message, without a vector upserted or a
\* chapter record created for its file.
C18_ShortTextAborts ==
  \A u \in UploadIds :
    (job[u].pc \in {"exited", "escaped"}
       /\ job[u].text_content # NoText
       /\ job[u].text_content.clean < MinTextChars)
      => /\ uploaded_books[u][1].status = "failed"
         /\ uploaded_books[u][1].error_message # <<>>
         /\ \A v \in vectors : v.source_file # FileName(u)
         /\ \A c \in book_chapters : c.source_file # FileName(u)

\* s[n:]
Drop(s, n) == SubSeq(s, n + 1, Len(s))

\* the chunks without the prefix the overlap pass put before each of them
RECURSIVE Unoverlap(_, _, _)
Unoverlap(done, rest, overlap) ==
  IF rest = <<>> THEN done
  ELSE Unoverlap(
         Append(done, Drop(Head(rest), Min(overlap, Len(done[Len(done)])) + 1)),
         Tail(rest), overlap)

StripOverlaps(out, overlap) ==
  IF overlap > 0 /\ Len(out) > 1 THEN Unoverlap(<<out[1]>>, Tail(out), overlap)
  ELSE out

\* the words of a text: its maximal runs of non-whitespace characters
RECURSIVE Words(_)
Words(s) ==
  LET t == strip(s)
      gaps == {i \in 1..Len(t) : t[i] \in Whitespace}
  IN  IF t = <<>> THEN <<>>
      ELSE IF gaps = {} THEN <<t>>
      ELSE LET i == First(gaps)
           IN  <<SubSeq(t, 1, i - 1)>> \o Words(Drop(t, i))

\* the non-empty stripped members of a sequence of strings
RECURSIVE NonEmpty(_)
NonEmpty(ss) ==
  IF ss = <<>> THEN <<>>
  ELSE IF strip(Head(ss)) = <<>> THEN NonEmpty(Tail(ss))
  ELSE <<strip(Head(ss))>> \o NonEmpty(Tail(ss))

\* the paragraphs of a text
Paragraphs(text) == NonEmpty(split(strip(text), ParagraphBreak))

\* the chunks, end to end, as one sequence of paragraphs
RECURSIVE Pieces(_)
Pieces(chunks) ==
  IF chunks = <<>> THEN <<>>
  ELSE NonEmpty(split(Head(chunks), ParagraphBreak)) \o Pieces(Tail(chunks))

\* the words of a sequence of strings, in order
RECURSIVE AllWords(_)
AllWords(ss) == IF ss = <<>> THEN <<>> ELSE Words(Head(ss)) \o AllWords(Tail(ss))

\* C19: with the overlap prefixes stripped, the chunks end to end hold the
\* words of the text's paragraphs once each and in order, and when no
\* paragraph is longer than the chunk size they are the paragraphs themselves.
C19_ChunksReconstructText ==
  ck.done =>
    LET raw == StripOverlaps(ck.out, ck.overlap)
        paragraphs == Paragraphs(ck.text)
    IN  /\ AllWords(raw) = AllWords(paragraphs)
        /\ (\A i \in 1..Len(paragraphs) : Len(paragraphs[i]) <= ck.chunk_size)
             => Pieces(raw) = paragraphs

C19_Witness ==
  /\ ck.done
  /\ ck.overlap > 1
  /\ Len(ck.out) >= 3
  /\ Len(Paragraphs(ck.text)) >= 2
  /\ \E i \in 1..Len(Paragraphs(ck.text)) :
       Len(Paragraphs(ck.text)[i]) > ck.chunk_size

\* the sentences of the paragraphs longer than chunk_size
LongSentences(text, chunk_size) ==
  UNION {Range(NonEmpty(Sentences(p))) :
           p \in {q \in Range(Paragraphs(text)) : Len(q) > chunk_size}}

\* C20: without overlap every chunk is at most chunk_size characters long,
\* unless it is one paragraph or one sentence that is longer by itself.
C20_ChunkWithinSize ==
  (ck.done /\ ck.overlap = 0) =>
    \A i \in 1..Len(ck.out) :
      \/ Len(ck.out[i]) <= ck.chunk_size
      \/ ck.out[i] \in Range(Paragraphs(ck.text))
                         \cup LongSentences(ck.text, ck.chunk_size)

\* C21: a text no longer than chunk_size yields no chunk when it is empty or
\* blank and exactly one chunk otherwise, whatever the overlap
C21_ShortTextOneChunk ==
  (ck.done /\ Len(ck.text) <= ck.chunk_size)
    => Len(ck.out) = (IF strip(ck.text) = <<>> THEN 0 ELSE 1)

\* two paragraphs that fit chunk_size together, chunked with an overlap
C21_Witness ==
  /\ ck.done
  /\ Len(ck.text) <= ck.chunk_size
  /\ Len(split(strip(ck.text), ParagraphBreak)) > 1
  /\ ck.overlap > 0
  /\ Len(ck.out) = 1

InitHash ==
  /\ now = 0
  /\ chat_cache = {}
  /\ index = <<>>
  /\ req = [r \in Requests |-> Idle]
  /\ llm = LlmIdle
  /\ ws = WsIdle
  /\ IngestAtRest
  /\ chat_history = <<>>
  /\ svc = SvcIdle
  /\ ck = CkIdle
  /\ hq \in {[HqIdle EXCEPT !.a = a, !.b = b] : a, b \in HashArgs}
  /\ fan = FanIdle
  /\ pine = PineIdle

\* _hash_question applied to every pair of argument triples of the model
NextHash == HashBoth

SpecHash == InitHash /\ [][NextHash]_vars

\* C22: two calls whose questions are equal after lower().strip() and whose
\* grade and subject are equal give the same hash, and two calls with the
\* same question and grade but different subjects (absent counts as a
\* subject value) give different hashes
C22_HashSeparatesSubjects ==
  hq.done =>
    /\ (/\ NormalizeQuestion(hq.a.query) = NormalizeQuestion(hq.b.query)
        /\ hq.a.grade = hq.b.grade
        /\ hq.a.subject = hq.b.subject) => hq.hash_a = hq.hash_b
    /\ (/\ hq.a.query = hq.b.query
        /\ hq.a.grade = hq.b.grade
        /\ hq.a.subject # hq.b.subject) => hq.hash_a # hq.hash_b

InitIndex ==
  /\ now = 0
  /\ chat_cache = {}
  /\ index = <<>>
  /\ req = [r \in Requests |-> Idle]
  /\ llm = LlmIdle
  /\ ws = WsIdle
  /\ IngestAtRest
  /\ chat_history = <<>>
  /\ svc = SvcIdle
  /\ ck = CkIdle
  /\ hq = HqIdle
  /\ fan = FanIdle
  /\ pine \in [Files -> {[PineIdle[f] EXCEPT !.subject = subject, !.chunks = n] :
                          f \in Files, subject \in IndexSubjects, n \in 1..MaxChunks}]

\* each file is added, added again with the same arguments, and deleted
NextIndex ==
  \/ \E f \in Files : AddDocuments(f)
  \/ \E f \in Files : DeleteBySource(f)

SpecIndex == InitIndex /\ [][NextIndex]_vars

\* the records of the index that carry source_file f
RecordsOf(f) == {v \in vectors : v.source_file = f}

\* C23: after add_documents has run any number of times with the same
\* arguments, the namespace holds exactly the records of one run (one record
\* per chunk index, all written by the latest run), and the run returned the
\* number of chunks
C23_UpsertIdempotent ==
  \A f \in Files :
    pine[f].last = "added" =>
      /\ pine[f].returned = <<pine[f].chunks>>
      /\ Cardinality(RecordsOf(f)) = pine[f].chunks
      /\ \A i \in 0..(pine[f].chunks - 1) :
           \E v \in RecordsOf(f) :
             /\ v.chunk_index = i
             /\ v.id = vector_id(f, Standard, Chapter, i)
             /\ v.namespace = get_namespace(pine[f].subject)
             /\ v.run = pine[f].runs

\* a file of more than one chunk has been added twice
C23_Witness ==
  \E f \in Files :
    /\ pine[f].last = "added"
    /\ pine[f].runs = MaxRuns
    /\ pine[f].chunks > 1
    /\ Cardinality(RecordsOf(f)) = pine[f].chunks

\* C24: after delete_by_source(source_file, subject), called with the subject
\* the file was added under, no record of that file is left in the index,
\* whatever the subject (absent and empty included)
C24_DeleteRemovesSource ==
  \A f \in Files : pine[f].last = "deleted" => RecordsOf(f) = {}

\* what the normalisation of a given, non-empty subject is, character by
\* character
Normalized(name) ==
  [i \in 1..Len(name) |->
     IF name[i] \in {" ", "-"} THEN "_" ELSE Lower(name[i])]

\* C27: the namespace of a record is the lowercased subject with every space
\* and hyphen replaced by an underscore, and "general" for an absent or
\* empty subject
C27_NamespaceNormalized ==
  \A f \in Files : \A v \in RecordsOf(f) :
    v.namespace =
      IF pine[f].subject = <<>> \/ pine[f].subject[1] = <<>> THEN General
      ELSE Normalized(pine[f].subject[1])

\* records were written for a subject with capitals and a space, for one
\* with a hyphen, and for an absent subject
C27_Witness ==
  /\ \E v \in vectors : v.namespace = <<"s", "o", "_", "s", "c">>
                         /\ pine[v.source_file].subject = <<<<"S", "o", " ", "S", "c">>>>
  /\ \E v \in vectors : v.namespace = General

InitFanOut ==
  /\ now = 0
  /\ chat_cache = {}
  /\ index = <<>>
  /\ req = [r \in Requests |-> Idle]
  /\ llm = LlmIdle
  /\ ws = WsIdle
  /\ IngestAtRest
  /\ chat_history = <<>>
  /\ svc = SvcIdle
  /\ ck = CkIdle
  /\ hq = HqIdle
  /\ fan \in {[FanIdle EXCEPT !.ranked = ranked, !.failing = failing, !.top_k = k] :
               ranked \in [PopulatedNamespaces -> Corpora(MaxNamespaceDocs)],
               failing \in SUBSET FailingCandidates,
               k \in 1..RAG_TOP_K}
  /\ pine = PineIdle

\* one subject-less query for every content of the namespaces, every set of
\* failing namespaces and every top_k up to the configured one
NextFanOut == FanOutQuery

SpecFanOut == InitFanOut /\ [][NextFanOut]_vars

\* the matches returned by the namespace queries that did not raise
SucceededMatches ==
  UNION {Range(QueryNamespace(fan.ranked, namespaces_to_query[i])) :
           i \in {j \in 1..Len(namespaces_to_query) :
                     namespaces_to_query[j] \notin fan.failing}}

\* C28: whichever namespaces fail, the subject-less query does not raise and
\* its result is made of the matches of the namespaces that succeeded, all of
\* them up to top_k, none twice
C28_FailingNamespacesSkipped ==
  fan.done =>
    /\ ~fan.raised
    /\ Range(fan.result) \subseteq SucceededMatches
    /\ Cardinality(Range(fan.result)) = Len(fan.result)
    /\ Len(fan.result) = Min(fan.top_k, Cardinality(SucceededMatches))

\* the query of a namespace that holds matches failed, another one answered
C28_Witness ==
  /\ fan.done
  /\ "physics" \in fan.failing
  /\ Len(fan.ranked["physics"]) > 0
  /\ "" \notin fan.failing
  /\ fan.result # <<>>
  /\ \A i \in 1..Len(fan.result) : fan.result[i].namespace = ""

\* C29: the result of a subject-less query has at most top_k entries, in
\* order of non-increasing score, no entry left out scores more than one
\* that is returned, and no namespace contributes more than three
C29_FanOutTopKSorted ==
  fan.done =>
    LET all_results == Gather(fan.ranked, fan.failing, namespaces_to_query)
    IN  /\ Len(fan.result) = Min(fan.top_k, Len(all_results))
        /\ \A i \in 1..(Len(fan.result) - 1) :
             fan.result[i].score >= fan.result[i + 1].score
        /\ Range(fan.result) \subseteq Range(all_results)
        /\ \A m \in Range(all_results) \ Range(fan.result) :
             \A i \in 1..Len(fan.result) : fan.result[i].score >= m.score
        /\ \A ns \in PopulatedNamespaces :
             Cardinality({m \in Range(fan.result) : m.namespace = ns})
               <= PerNamespaceTopK

\* a namespace holds more matches than one query returns, the other holds
\* the best match, and the merged list is cut at top_k
C29_Witness ==
  /\ fan.done
  /\ fan.failing = {}
  /\ Len(fan.ranked[""]) > PerNamespaceTopK
  /\ Len(fan.ranked["physics"]) >= PerNamespaceTopK
  /\ Len(fan.result) = fan.top_k
  /\ fan.top_k = RAG_TOP_K
  /\ fan.result[1].namespace = "physics"
  /\ fan.result[1].score > fan.result[2].score
  /\ fan.result[2].namespace = ""

\* the fragments forwarded to the client for the request being served, in
\* the order of the chunk messages
Forwarded ==
  LET n == Len(ws.sent)
      last == IF n >= 3 /\ ws.sent[n].type = "end" THEN n - 1 ELSE n
  IN  [i \in 1..(IF last >= 2 THEN last - 2 ELSE 0) |-> ws.sent[i + 2].content[1]]

\* sources, start, chunk ..., end
StreamOrder ==
  \A i \in 1..Len(ws.sent) :
    /\ i = 1 => ws.sent[i].type = "sources"
    /\ i = 2 => ws.sent[i].type = "start"
    /\ i >= 3 => ws.sent[i].type \in {"chunk", "end"}
    /\ ws.sent[i].type = "end" => i = Len(ws.sent)

\* C25: the messages of one streamed request are sources, start, the chunks
\* and end in this order, the chunks carry the fragments in the order the
\* provider yielded them, full_response of the end message is their
\* concatenation, nothing follows end, and nothing is sent once the client
\* is gone
C25_StreamOrdered ==
  /\ [](/\ StreamOrder
        /\ ws.pc = "streaming" => Forwarded = ws.full_response
        /\ (Len(ws.sent) >= 3 /\ ws.sent[Len(ws.sent)].type = "end")
             => ws.sent[Len(ws.sent)].content = Forwarded)
  /\ [][~ws.client => ws'.sent = ws.sent]_vars

\* a request was streamed to its end in two different fragments
C25_Witness ==
  /\ Len(ws.sent) = 5
  /\ ws.sent[5].type = "end"
  /\ ws.sent[3].content # ws.sent[4].content
  /\ ws.sent[5].content = <<ws.sent[3].content[1], ws.sent[4].content[1]>>

\* chat() requests, one at a time, served by the Gemini or by the OpenAI
\* provider (request.model), each with or without its API key
NextProvider ==
  \/ \E r \in Requests, g \in Grades : Sequential(r, PlainQuestion, g, "en")
  \/ \E r \in Requests : ProcessQueryCache(r)
  \/ \E r \in Requests : ProcessQueryRetrieve(r)
  \/ \E r \in Requests : ProcessQueryRetrieveFails(r)
  \/ \E r \in Requests : ProcessQueryHistory(r)
  \/ \E r \in Requests : GenerateBegin(r)
  \/ \E o \in Outcomes : GeminiPost(o)
  \/ \E r \in Requests : OpenAIGenerateBegin(r)
  \/ \E o \in Outcomes : OpenAIPost(o)
  \/ GenerateReturns
  \/ GenerateRaises
  \/ \E r \in Requests : ChatSave(r)
  \/ \E r \in Requests : ChatCachePut(r)
  \/ \E r \in Requests : ChatRespond(r)
  \/ \E r \in Requests : ChatRespondError(r)

SpecProvider == InitLLM /\ [][NextProvider]_vars

\* C26: a generate call of a provider without an API key returns the
\* configuration message to its caller and sends no request
C26_UnconfiguredReturnsMessage ==
  (llm.pc \in {"returned", "raised"} /\ ~llm.api_key) =>
    /\ llm.pc = "returned"
    /\ llm.result = NotConfiguredMessage
    /\ llm.requests = 0

\* C30: within one job every write leaves progress_percent at one of the
\* values 0, 15, 30, 45, 55, 65, 90, 100 and never below the value it had,
\* and the write that records a failure leaves it as it was
C30_ProgressMonotonic ==
  [][\A u \in UploadIds :
       (uploaded_books[u] # <<>> /\ uploaded_books'[u] # <<>>) =>
         /\ uploaded_books'[u][1].progress_percent
              \in {0, 15, 30, 45, 55, 65, 90, 100}
         /\ uploaded_books'[u][1].progress_percent
              >= uploaded_books[u][1].progress_percent
         /\ (uploaded_books'[u][1].status = "failed"
               /\ uploaded_books[u][1].status # "failed")
              => uploaded_books'[u][1].progress_percent
                   = uploaded_books[u][1].progress_percent]_vars

\* a job failed after it had written progress, and its progress is kept
C30_Witness ==
  \E u \in UploadIds :
    /\ uploaded_books[u] # <<>>
    /\ uploaded_books[u][1].status = "failed"
    /\ uploaded_books[u][1].progress_percent = 65

\* C31: once process_document has chosen its text, a native text of fewer
\* than 500 characters means that full_page_ocr ran and the text is the OCR
\* output alone, and a native text of 500 characters or more means that
\* full_page_ocr did not run
C31_OcrReplacesShortNative ==
  \A u \in UploadIds :
    job[u].text_content # NoText =>
      IF job[u].doc.native.length < MinNativeChars
      THEN job[u].ocr_calls = 1 /\ job[u].text_content = job[u].doc.ocr
      ELSE job[u].ocr_calls = 0 /\ job[u].text_content = job[u].doc.native

\* the chunks before the overlap pass: the pass is skipped for overlap 0
Unoverlapped == chunk_text(ck.text, ck.chunk_size, 0)

\* the last n characters of s, all of s when it has fewer
LastChars(s, n) ==
  LET k == Min(n, Len(s)) IN [j \in 1..k |-> s[Len(s) - k + j]]

\* C32: with overlap > 0 the result has the chunks of the segmentation in
\* number and order, the first as it is and every later one preceded by the
\* last overlap characters of the chunk before it (all of it when it is
\* shorter) and one space
C32_OverlapPrefixes ==
  (ck.done /\ ck.overlap > 0) =>
    /\ Len(ck.out) = Len(Unoverlapped)
    /\ \A i \in 1..Len(ck.out) :
         ck.out[i] =
           IF i = 1 THEN Unoverlapped[1]
           ELSE LastChars(Unoverlapped[i - 1], ck.overlap) \o <<" ">>
                  \o Unoverlapped[i]

\* three chunks, one after a chunk longer than the overlap whose ends
\* differ, one after a chunk shorter than the overlap
C32_Witness ==
  /\ ck.done
  /\ ck.overlap > 0
  /\ Len(ck.out) >= 3
  /\ \E i \in 1..(Len(ck.out) - 1) :
       /\ Len(Unoverlapped[i]) > ck.overlap
       /\ Unoverlapped[i][1] # Unoverlapped[i][Len(Unoverlapped[i])]
  /\ \E i \in 1..(Len(ck.out) - 1) : Len(Unoverlapped[i]) < ck.overlap

\* the responses that are neither a rate limit, a bad request nor a timeout:
\* another HTTP error status, a connection or other error
OtherErrors == {"500", "error"}

\* C33: generate sends at most max_retries requests whatever the responses;
\* after every such error but the one of the last attempt it has slept for
\* the retry delay and goes on, and a call that ends on such an error has
\* used all its attempts and raises instead of returning a text
C33_OtherErrorsRetriedThenRaised ==
  LET n == Len(llm.outcomes)
      slept == {i \in 1..n : i < max_retries /\ llm.outcomes[i] \in OtherErrors \cup {"429"}}
  IN  /\ llm.requests <= max_retries
      /\ llm.requests = n
      /\ Len(llm.sleeps) = Cardinality(slept)
      /\ \A k \in 1..Len(llm.sleeps) : llm.sleeps[k] >= retry_delay
      /\ \A i \in 1..n :
           (llm.outcomes[i] \in OtherErrors /\ i < max_retries)
             => (i < n \/ llm.pc = "post")
      /\ (llm.pc \in {"returned", "raised"} /\ n > 0
            /\ llm.outcomes[n] \in OtherErrors)
           => (llm.pc = "raised" /\ n = max_retries)

\* a timeout, a connection error and a server error in turn: the call raises
\* after its third request
C33_Witness ==
  /\ llm.pc = "raised"
  /\ llm.outcomes = <<"timeout", "error", "500">>
  /\ llm.requests = max_retries
  /\ Len(llm.sleeps) = 1

InitHistory ==
  /\ now = 0
  /\ chat_cache = {}
  /\ index \in MainCorpora
  /\ req = [r \in Requests |-> Idle]
  /\ llm = LlmIdle
  /\ ws = WsIdle
  /\ IngestAtRest
  /\ chat_history = <<>>
  /\ svc = SvcIdle
  /\ ck = CkIdle
  /\ hq = HqIdle
  /\ fan = FanIdle
  /\ pine = PineIdle

\* chat() entry with request.conversation_id given
ChatStartIn(r, message, grade, language) ==
  /\ \A q \in Requests : req[q].pc = "idle"
  /\ Len(chat_history) < MaxHistory
  /\ req' = [req EXCEPT ![r] = [Idle EXCEPT !.pc = "cache_get", !.message = message,
                                            !.grade = grade, !.language = language,
                                            !.conversation_id = <<"c1">>]]
  /\ UNCHANGED <<now, chat_cache, index>>
  /\ UNCHANGED exceptChat

\* the requests of one conversation, one after the other
NextHistory ==
  \/ \E r \in Requests, q \in {PlainQuestion, <<"dev", "a", "a">>}, g \in Grades :
       ChatStartIn(r, q, g, "en")
  \/ \E r \in Requests : ProcessQueryCache(r)
  \/ \E r \in Requests : ProcessQueryRetrieve(r)
  \/ \E r \in Requests : ProcessQueryRetrieveFails(r)
  \/ \E r \in Requests : ProcessQueryHistory(r)
  \/ \E r \in Requests : ChatGenerate(r, AnswerOf(r))
  \/ \E r \in Requests : ChatSave(r)
  \/ \E r \in Requests : ChatCachePut(r)
  \/ \E r \in Requests : ChatRespond(r)

SpecHistory == InitHistory /\ [][NextHistory]_vars

\* C34: when the request names a conversation that has earlier turns, the
\* prompt given to the provider holds the lines made of its last turns
C34_PromptHoldsHistory ==
  \A r \in Requests :
    (req[r].llmCalls = 1 /\ req[r].conversation_id # <<>>
       /\ req[r].historyCalls = 1 /\ req[r].history # <<>>)
      => /\ req[r].prompt.history # <<>>
         /\ req[r].prompt.history = req[r].conversation_context

InitHandles ==
  /\ now = 0
  /\ chat_cache = {}
  /\ index = <<>>
  /\ req = [r \in Requests |-> Idle]
  /\ llm = LlmIdle
  /\ ws = WsIdle
  /\ IngestAtRest
  /\ chat_history = <<>>
  /\ svc \in {SvcIdle, SvcStarted}
  /\ ck = CkIdle
  /\ hq = HqIdle
  /\ fan = FanIdle
  /\ pine = PineIdle

\* request tasks interleaving at their awaits, after a startup initialization
\* that passed or failed
NextHandles ==
  \/ \E t \in Tasks : EnsureConnected(t)
  \/ \E t \in Tasks : PingSucceeds(t)
  \/ \E t \in Tasks : PingFails(t)
  \/ \E t \in Tasks : GetDb(t)
  \/ \E t \in Tasks : TaskEnds(t)

SpecHandles == InitHandles /\ [][NextHandles]_vars

\* C35: the database handle is initialized at most once, and once it is set no
\* step changes it while a request is using it
C35_HandleSetOnceAndKept ==
  /\ [](svc.clients <= 1)
  /\ [][(svc.db # NoHandle /\ \E t \in Tasks : svc.task[t].handle = svc.db)
          => svc'.db = svc.db]_vars

\* C36: the key under which chat() stores the answer of a request is the key
\* process_query looked up for it, so the entry just written is what a repeat of
\* the request finds; also when the grade comes from the user's profile.
C36_StoreKeyIsLookupKey ==
  [][\A r \in Requests :
       ChatCachePut(r) =>
         /\ StoreHash(r) = LookupHash(r)
         /\ get_cached_response(LookupHash(r))' # <<>>
         /\ get_cached_response(LookupHash(r))'[1].answer = req[r].response
    ]_vars

\* C37: no entry of the response cache has one of the provider failure
\* messages as its answer.
C37_FailureMessageNotCached ==
  \A d \in chat_cache : d.answer \notin FallbackMessages

\* C38: an entry that report_wrong_answer has invalidated becomes valid again
\* only by the put of a request that missed the cache and ran the retriever;
\* a request that was served from the entry before the report never revives it.
C38_InvalidationNotLost ==
  [][\A r \in Requests :
       (/\ ChatCachePut(r)
        /\ \E d \in chat_cache : d.question_hash = StoreHash(r) /\ ~d.is_valid)
         => req[r].cached = <<>> /\ req[r].retrieverCalls = 1
    ]_vars

\* the uploads of the library: u2 carries the file name and the subject of u1
\* with another class
LibraryUploads == {"u1", "u2"}

\* a one-chunk document with enough native text
GoodDocuments ==
  {d \in Documents : /\ d.native = Text("native", 500, 500)
                     /\ d.ocr = Text("ocr", 100, 100)
                     /\ d.chunks = 1}

InitLibrary ==
  /\ now = 0
  /\ chat_cache = {}
  /\ index = <<>>
  /\ req = [r \in Requests |-> Idle]
  /\ llm = LlmIdle
  /\ ws = WsIdle
  /\ uploaded_books = [u \in LibraryUploads |-> <<>>]
  /\ job = [u \in LibraryUploads |-> JobIdle]
  /\ vectors = {}
  /\ book_chapters = {}
  /\ deletion = [u \in LibraryUploads |-> NoDeletion]
  /\ chat_history = <<>>
  /\ svc = SvcIdle
  /\ ck = CkIdle
  /\ hq = HqIdle
  /\ fan = FanIdle
  /\ pine = PineIdle

\* uploads, their background jobs and the administrator's deletions, each
\* suspended at its awaits
NextLibrary ==
  \/ \E u \in LibraryUploads, d \in GoodDocuments : upload_book(u, d)
  \/ \E u \in LibraryUploads : ProcessStart(u)
  \/ \E u \in LibraryUploads : ProcessExtractNative(u)
  \/ \E u \in LibraryUploads : ProcessExtractImages(u)
  \/ \E u \in LibraryUploads : ProcessSelectText(u)
  \/ \E u \in LibraryUploads : ProcessClean(u)
  \/ \E u \in LibraryUploads : ProcessChunk(u)
  \/ \E u \in LibraryUploads : ProcessProgress55(u)
  \/ \E u \in LibraryUploads : ProcessProgress65(u)
  \/ \E u \in LibraryUploads : ProcessAddDocuments(u)
  \/ \E u \in LibraryUploads : ProcessProgress90(u)
  \/ \E u \in LibraryUploads : ProcessChapter(u)
  \/ \E u \in LibraryUploads : ProcessComplete(u)
  \/ \E u \in LibraryUploads : DeleteBookFind(u)
  \/ \E u \in LibraryUploads : DeleteBookVectors(u)
  \/ \E u \in LibraryUploads : DeleteBookVectorsFails(u)
  \/ \E u \in LibraryUploads : DeleteBookRecord(u)
  \/ \E u \in LibraryUploads : DeleteBookChapters(u)

SpecLibrary == InitLibrary /\ [][NextLibrary]_vars

\* the vector records and the chapter records an upload's job wrote
VectorsOf(u) ==
  {v \in vectors : v.source_file = FileName(u) /\ v.id[2] = ClassNum(u)}
ChaptersOf(u) ==
  {c \in book_chapters : c.source_file = FileName(u) /\ c.class_num = ClassNum(u)}

\* C39: once delete_book of an upload has returned, the index holds no vector
\* record and the store no chapter record of that upload, whatever its
\* ingestion job was doing meanwhile.
C39_DeletedBookLeavesNothing ==
  \A u \in LibraryUploads :
    deletion[u].pc = "done" => VectorsOf(u) = {} /\ ChaptersOf(u) = {}

\* C40: a step of delete_book for one upload leaves the vector records and the
\* chapter records of every other upload as they were.
C40_DeleteTouchesOnlyItsUpload ==
  [][\A u \in LibraryUploads :
       deletion'[u] # deletion[u] =>
         \A w \in LibraryUploads \ {u} :
           VectorsOf(w)' = VectorsOf(w) /\ ChaptersOf(w)' = ChaptersOf(w)
    ]_vars

====
